---- MODULE Spec2Model ----
(***************************************************************************)
(* Mindsnacks: the content-generation pipeline (LLM call with cache and    *)
(* model fallback, TTS provider chain with audio cache), the user session  *)
(* playlist and the user-profile store, modelled from the Python sources.  *)
(*                                                                         *)
(* Environment: the remote services (the Groq completion API and the TTS   *)
(* providers) may fail on any call.  Operations on local files (open,      *)
(* json.dump, shutil.copy2, the pydub export of enhance_audio and          *)
(* compress_audio) complete; md5 and uuid4 do not collide.                 *)
(*                                                                         *)
(* Each subsystem has its own specification (SpecLLM, SpecAudio,           *)
(* SpecSession, SpecUsers); the variables of the other subsystems keep     *)
(* their initial value there.                                              *)
(***************************************************************************)
EXTENDS Integers, Sequences, FiniteSets, TLC

VARIABLES
    \* --- content generation (utils/llm_utils.py, pages/create.py)
    clock,              \* time.time(), in ticks
    memory_cache,       \* data_utils.memory_cache.cache: key -> (value, timestamp)
    cache_files,        \* CACHE_DIR/<key>.json: key -> JSON value
    create_form_state,  \* st.session_state.create_form_state (pages/create.py)
    lastCall,           \* the call that has just returned: arguments, LLM calls made, result
    \* --- audio generation (utils/audio_utils.py)
    elevenlabs_available,  \* module flag: API key configured and the package importable
    audio_dir,          \* AUDIO_DIR: path -> file
    audio_cache,        \* CACHE_DIR/<content_hash>.<format>: cache key -> file
    next_uuid,          \* the uuid4 values handed out so far
    lastAudio,          \* the generate_audio call that has just returned
    \* --- user session (utils/data_utils.py UserSession)
    user_session,       \* the fields of one UserSession object
    session_calls,      \* add_snippet / remove_snippet calls made on it
    lastSession,        \* the call that has just returned, and the object before it
    \* --- user profiles (utils/auth_utils.py UserManager)
    user_files,         \* USER_DATA_DIR/<id>.json: id -> profile
    next_user_id,       \* the uuid4 values create_user has drawn so far
    credentials,        \* <<email, password>> of every create_user call that made a profile
    user_calls,         \* update_user / authenticate calls made
    lastUser,           \* the UserManager call that has just returned, and the files before it
    \* --- daily streak (utils/data_utils.py UserSession.update_session_analytics)
    today,              \* datetime.date.today(), as a day number
    used_days,          \* the days on which update_session_analytics has run
    lastStreak,         \* the update_session_analytics call that has just returned
    \* --- quiz page (pages/quiz.py)
    quiz_state,         \* st.session_state.quiz_state
    quiz_count,         \* quizzes started or retried so far
    \* --- LRU cache (utils/cache_utils.py MemoryCache)
    lru_cache,          \* self.cache: key -> value
    access_times,       \* self.access_times, in insertion order: created, accessed, ttl per key
    lock,               \* self.lock: the thread that holds it, or NoThread
    threads,            \* per thread: the call it is in and where in it
    recency,            \* the stored keys, least recently got or set first
    lastCache,          \* the call that has just returned
    \* --- notifications (components/notifications.py NotificationManager)
    notifications,      \* st.session_state.notifications, oldest first
    notification_count, \* st.session_state.notification_count
    lastNotify,         \* the NotificationManager call that has just returned
    \* --- library (pages/discover.py, pages/create.py, pages/library.py)
    current_playlist,   \* st.session_state.current_playlist
    next_snippet_id,    \* the uuid4 values generate_learning_snippet has drawn so far
    lastLibrary         \* the page handler that has just run, and the snippet it added

llmVars == <<clock, memory_cache, cache_files, create_form_state, lastCall>>

audioVars == <<elevenlabs_available, audio_dir, audio_cache, next_uuid, lastAudio>>

sessionVars == <<user_session, session_calls, lastSession>>

userVars == <<user_files, next_user_id, credentials, user_calls, lastUser>>

streakVars == <<today, used_days, lastStreak>>

\* the subsystems that only their own specification moves
quizVars == <<quiz_state, quiz_count>>

cacheVars == <<lru_cache, access_times, lock, threads, recency, lastCache>>

notifyVars == <<notifications, notification_count, lastNotify>>

libraryVars == <<current_playlist, next_snippet_id, lastLibrary>>

extraVars == <<streakVars, quizVars, cacheVars, notifyVars, libraryVars>>

\* what the actions of one subsystem leave alone: the other subsystems
llmOthers == <<audioVars, sessionVars, userVars, extraVars>>

audioOthers == <<llmVars, sessionVars, userVars, extraVars>>

\* the session and the user manager read the clock of llmVars
sessionOthers ==
    <<memory_cache, cache_files, create_form_state, lastCall, audioVars, userVars, extraVars>>

userOthers ==
    <<memory_cache, cache_files, create_form_state, lastCall, audioVars, sessionVars, extraVars>>

\* update_session_analytics works on the session object
streakOthers ==
    <<llmVars, audioVars, session_calls, lastSession, userVars, quizVars, cacheVars,
      notifyVars, libraryVars>>

\* the quiz page reads the clock and records results in the session object
quizOthers ==
    <<memory_cache, cache_files, create_form_state, lastCall, audioVars, session_calls,
      lastSession, userVars, streakVars, cacheVars, notifyVars, libraryVars>>

\* the LRU cache reads the clock
cacheOthers ==
    <<memory_cache, cache_files, create_form_state, lastCall, audioVars, sessionVars, userVars,
      streakVars, quizVars, notifyVars, libraryVars>>

\* the notification manager reads the clock
notifyOthers ==
    <<memory_cache, cache_files, create_form_state, lastCall, audioVars, sessionVars, userVars,
      streakVars, quizVars, cacheVars, libraryVars>>

\* the pages generate audio, fill the create form and add to the session object
libraryOthers ==
    <<memory_cache, cache_files, lastCall, elevenlabs_available, lastAudio, lastSession,
      userVars, streakVars, quizVars, cacheVars, notifyVars>>

(***************************************************************************)
(* Bounds                                                                  *)
(***************************************************************************)
MaxClock == 2

\* generate_audio calls that name a file
MaxUuid == 2

\* add_snippet and remove_snippet calls on the session
MaxSessionCalls == 4

\* create_user calls (each draws a uuid4)
MaxUserIds == 2

\* update_user, authenticate and award_points calls
MaxUserCalls == 2

\* the last calendar day (the session is made on day 0)
MaxDay == 7

\* quizzes started or retried on the quiz page
MaxQuizzes == 3

\* add calls between two clear calls
MaxNotificationCount == 3

\* snippets generated
MaxSnippets == 2

(***************************************************************************)
(* Python values                                                           *)
(***************************************************************************)
None == [kind |-> "none"]

\* One line of text; h says that the stripped line starts with '#'.
Line(h, t) == [h |-> h, t |-> t]

\* A str, as the list of its lines (str.split('\n') is never empty).
Str(lines) == [kind |-> "str", lines |-> lines]

EmptyStr == Str(<<Line(FALSE, "")>>)

\* bool(v) of a cached value: None and '' are falsy, any dict here is non-empty.
Truthy(v) == /\ v.kind # "none"
             /\ v # EmptyStr

\* dict updates
Put(f, k, v) == [x \in (DOMAIN f) \cup {k} |-> IF x = k THEN v ELSE f[x]]

Remove(f, k) == [x \in (DOMAIN f) \ {k} |-> f[x]]

EmptyDict == [x \in {} |-> None]

(***************************************************************************)
(* config.py                                                               *)
(***************************************************************************)
\* CACHE_TTL is one week; the clock of the model ticks in half weeks.
CACHE_TTL == 2

LLM_MODELS == [default    |-> "meta-llama/llama-4-scout-17b-16e-instruct",
               fallback   |-> "llama4-8b-fast",
               generation |-> "meta-llama/llama-4-scout-17b-16e-instruct"]

WORDS_PER_MINUTE == 150

DEFAULT_SNIPPET_DURATION == 5

(***************************************************************************)
(* data_utils.MemoryCache                                                  *)
(***************************************************************************)
\* MemoryCache.get: the value if the entry is younger than ttl; an expired
\* entry is deleted.  Returns the value and the cache after the call.
MemoryCacheGet(cache, key, t) ==
    IF key \in DOMAIN cache
    THEN IF t - cache[key].ts < CACHE_TTL
         THEN [val |-> cache[key].v, cache |-> cache]
         ELSE [val |-> None, cache |-> Remove(cache, key)]
    ELSE [val |-> None, cache |-> cache]

\* MemoryCache.set: store (value, time.time()).
MemoryCacheSet(cache, key, value, t) == Put(cache, key, [v |-> value, ts |-> t])

(***************************************************************************)
(* llm_utils.ContentGenerationManager                                      *)
(***************************************************************************)
\* json.dump / json.load of None, a str or a dict of str, bool and numbers.
JsonDump(value) == [json |-> value]

JsonLoad(file) == file.json

\* prompt_templates.get_learning_prompt: the prompt text is a function of its arguments.
get_learning_prompt(topic, words, language) == <<"learning_prompt", topic, words, language>>

\* f"content_{md5(prompt)}_{model.replace('/', '_')}_{temperature}_{max_tokens}"
ContentKey(prompt, model, temperature, max_tokens) ==
    <<"content", prompt, model, temperature, max_tokens>>

\* f"snippet_{md5(topic)}_{language}_{duration_minutes}"
SnippetKey(topic, language, duration) == <<"snippet", topic, language, duration>>

\* _check_cache without its file lookup (lines 64-77 dropped).
check_cache_memory_only(cache, files, key, t) ==
    LET got == MemoryCacheGet(cache, key, t) IN
    IF Truthy(got.val)
    THEN [val |-> got.val, cache |-> got.cache, lookups |-> <<"memory">>]
    ELSE [val |-> None, cache |-> got.cache, lookups |-> <<"memory">>]

\* _check_cache: memory first, then the file; a file hit is copied to memory.
\* lookups lists the stores that were read, in order.
_check_cache(cache, files, key, t) ==
    LET got == MemoryCacheGet(cache, key, t) IN
    IF Truthy(got.val)
    THEN [val |-> got.val, cache |-> got.cache, lookups |-> <<"memory">>]
    ELSE IF key \in DOMAIN files
         THEN LET cached_content == JsonLoad(files[key]) IN
              [val |-> cached_content,
               cache |-> MemoryCacheSet(got.cache, key, cached_content, t),
               lookups |-> <<"memory", "disk">>]
         ELSE [val |-> None, cache |-> got.cache, lookups |-> <<"memory", "disk">>]

\* _save_cache: memory, then the file.
_save_cache(cache, files, key, content, t) ==
    [cache |-> MemoryCacheSet(cache, key, content, t),
     files |-> Put(files, key, JsonDump(content))]

\* The outcome of one client.chat.completions.create call: an exception, or
\* the content of the first choice (a str, possibly empty, or None).
Fail == [kind |-> "fail"]

ErrorContent == Str(<<Line(FALSE, "Error generating content. Please try again later.")>>)

\* ContentGenerationManager.__init__: self.temperature = 0.7
default_temperature == "0.7"

\* generate_content without the test `model != self.fallback_model` at line
\* 154: the fallback model is called after any failure.
generate_content_always_falls_back(cache, files, t, prompt, model_arg, temperature, max_tokens, first, second) ==
    LET model  == IF model_arg = "" THEN LLM_MODELS.default ELSE model_arg
        key    == ContentKey(prompt, model, temperature, max_tokens)
        cached == _check_cache(cache, files, key, t)
    IN  IF Truthy(cached.val)
        THEN [result |-> cached.val, cache |-> cached.cache, files |-> files,
              key |-> key, lookups |-> cached.lookups, calls |-> <<>>, outs |-> <<>>]
        ELSE IF first # Fail
        THEN LET saved == _save_cache(cached.cache, files, key, first, t) IN
             [result |-> first, cache |-> saved.cache, files |-> saved.files,
              key |-> key, lookups |-> cached.lookups, calls |-> <<model>>, outs |-> <<first>>]
        ELSE [result |-> IF second # Fail THEN second ELSE ErrorContent,
              cache |-> cached.cache, files |-> files,
              key |-> key, lookups |-> cached.lookups,
              calls |-> <<model, LLM_MODELS.fallback>>, outs |-> <<first, second>>]

\* generate_content(prompt, model, temperature, max_tokens) with the outcomes
\* first and second of the LLM calls it may make; model_arg "" is a model
\* that was not given.  calls lists the models called, in order, and outs
\* their outcomes.
generate_content(cache, files, t, prompt, model_arg, temperature, max_tokens, first, second) ==
    LET model  == IF model_arg = "" THEN LLM_MODELS.default ELSE model_arg
        key    == ContentKey(prompt, model, temperature, max_tokens)
        cached == _check_cache(cache, files, key, t)
    IN  IF Truthy(cached.val)
        THEN [result |-> cached.val, cache |-> cached.cache, files |-> files,
              key |-> key, lookups |-> cached.lookups, calls |-> <<>>, outs |-> <<>>]
        ELSE IF first # Fail
        THEN LET saved == _save_cache(cached.cache, files, key, first, t) IN
             [result |-> first, cache |-> saved.cache, files |-> saved.files,
              key |-> key, lookups |-> cached.lookups, calls |-> <<model>>, outs |-> <<first>>]
        ELSE IF model # LLM_MODELS.fallback
        THEN [result |-> IF second # Fail THEN second ELSE ErrorContent,
              cache |-> cached.cache, files |-> files,
              key |-> key, lookups |-> cached.lookups,
              calls |-> <<model, LLM_MODELS.fallback>>, outs |-> <<first, second>>]
        ELSE [result |-> ErrorContent, cache |-> cached.cache, files |-> files,
              key |-> key, lookups |-> cached.lookups, calls |-> <<model>>, outs |-> <<first>>]

(***************************************************************************)
(* llm_utils.generate_learning_snippet                                     *)
(***************************************************************************)
\* Index of the first line that starts with '#', 0 if there is none.
FirstHeading(lines) ==
    IF \E i \in 1..Len(lines) : lines[i].h
    THEN CHOOSE i \in 1..Len(lines) : lines[i].h /\ \A j \in 1..(i - 1) : ~lines[j].h
    ELSE 0

\* lines without its i-th element
DropAt(lines, i) == SubSeq(lines, 1, i - 1) \o SubSeq(lines, i + 1, Len(lines))

\* Title and body of generated content: the title is the first '#' line, or
\* else the first line; the body is what is left.
ParseContent(content) ==
    LET lines == content.lines
        i     == FirstHeading(lines)
    IN  IF i > 0
        THEN [title |-> lines[i].t, body |-> DropAt(lines, i)]
        ELSE [title |-> lines[1].t, body |-> Tail(lines)]

\* The snippet dict (id and creation time are not modelled); error says
\* that the dict has the key 'error'.
Snippet(title, content, topic, duration, language, error) ==
    [kind |-> "dict", title |-> title, content |-> content, topic |-> topic,
     target_duration |-> duration, language |-> language, error |-> error]

ErrorMessage(topic) == <<"We couldn't generate content for", topic>>

generate_learning_snippet(cache, files, t, topic, duration_minutes, language, first, second) ==
    LET target_word_count == duration_minutes * WORDS_PER_MINUTE
        cache_key == SnippetKey(topic, language, duration_minutes)
        cached    == _check_cache(cache, files, cache_key, t)
        prompt    == get_learning_prompt(topic, target_word_count, language)
        gen       == generate_content(cached.cache, files, t, prompt, LLM_MODELS.generation,
                                      "0.7", 2000, first, second)
    IN  IF Truthy(cached.val)
        THEN [result |-> cached.val, cache |-> cached.cache, files |-> files,
              key |-> cache_key, lookups |-> cached.lookups, calls |-> <<>>, outs |-> <<>>]
        ELSE IF gen.result = None
        THEN \* content.split raises: the except branch returns the error snippet
             [result |-> Snippet(<<"Introduction to", topic>>, ErrorMessage(topic), topic,
                                 duration_minutes, language, TRUE),
              cache |-> gen.cache, files |-> gen.files,
              key |-> cache_key, lookups |-> cached.lookups,
              calls |-> gen.calls, outs |-> gen.outs]
        ELSE LET parsed  == ParseContent(gen.result)
                 snippet == Snippet(parsed.title, parsed.body, topic,
                                    duration_minutes, language, FALSE)
                 saved   == _save_cache(gen.cache, gen.files, cache_key, snippet, t)
             IN  [result |-> snippet, cache |-> saved.cache, files |-> saved.files,
                  key |-> cache_key, lookups |-> cached.lookups,
                  calls |-> gen.calls, outs |-> gen.outs]

(***************************************************************************)
(* Inputs of the content-generation specification                          *)
(***************************************************************************)
Topics == {"volcanoes"}

Languages == {"en"}

\* pages/create.py duration_map: 'standard' -> 5 minutes
Lengths == {"standard"}

duration_map(length) == IF length = "short" THEN 2 ELSE IF length = "detailed" THEN 10 ELSE 5

Prompts == {get_learning_prompt(topic, duration_map(length) * WORDS_PER_MINUTE, language) :
                topic \in Topics, length \in Lengths, language \in Languages}

\* model arguments of direct generate_content calls: not given (the default), the fallback
ModelArgs == {"", LLM_MODELS.fallback}

\* "Intro\n# Volcanoes\nMagma rises.", "" and None
Contents == {Str(<<Line(FALSE, "Intro"), Line(TRUE, "Volcanoes"), Line(FALSE, "Magma rises.")>>),
             EmptyStr,
             None}

Outcomes == Contents \cup {Fail}

\* The outcome of the second LLM call matters only after a failed first call.
SecondOutcomes(first) == IF first = Fail THEN Outcomes ELSE {Fail}

Idle == [op |-> "idle"]

\* What the caches held under key when a call began: the value of the memory
\* entry (None without one), whether that entry was younger than the ttl, and
\* the value in the cache file (None without one).
HeldBefore(key) ==
    [in_memory |-> IF key \in DOMAIN memory_cache THEN memory_cache[key].v ELSE None,
     live      |-> key \in DOMAIN memory_cache /\ clock - memory_cache[key].ts < CACHE_TTL,
     on_disk   |-> IF key \in DOMAIN cache_files THEN cache_files[key].json ELSE None]

\* The record of a call that has returned: r is what the function computed,
\* held what the caches held under its key before the call.
CallRecord(op, r) ==
    [op |-> op, key |-> r.key, result |-> r.result, lookups |-> r.lookups,
     calls |-> r.calls, outs |-> r.outs, held |-> HeldBefore(r.key)]

(***************************************************************************)
(* Actions of the content-generation specification                         *)
(***************************************************************************)
\* Time passes between two calls.
Tick ==
    /\ clock < MaxClock
    /\ clock' = clock + 1
    /\ lastCall' = Idle
    /\ UNCHANGED <<memory_cache, cache_files, create_form_state, llmOthers>>

\* A direct call content_manager.generate_content(prompt, model, max_tokens = 2000).
GenerateContent(prompt, model_arg, first, second) ==
    LET r == generate_content(memory_cache, cache_files, clock, prompt, model_arg,
                              default_temperature, 2000, first, second)
    IN  /\ memory_cache' = r.cache
        /\ cache_files' = r.files
        /\ lastCall' = CallRecord("generate_content", r)
        /\ UNCHANGED <<clock, create_form_state, llmOthers>>

\* A call generate_learning_snippet(topic, duration, language) from outside the create page.
GenerateLearningSnippet(topic, duration, language, first, second) ==
    LET r == generate_learning_snippet(memory_cache, cache_files, clock, topic, duration,
                                       language, first, second)
    IN  /\ memory_cache' = r.cache
        /\ cache_files' = r.files
        /\ lastCall' = CallRecord("generate_learning_snippet", r)
        /\ UNCHANGED <<clock, create_form_state, llmOthers>>

\* pages/create.py: the Generate button (disabled without a topic or while generating).
CreateClickGenerate(topic, length, language) ==
    /\ topic # ""
    /\ ~create_form_state.generating
    /\ create_form_state' = [create_form_state EXCEPT
            !.topic = topic, !.length = length, !.language = language,
            !.generating = TRUE, !.error = "None"]
    /\ lastCall' = Idle
    /\ UNCHANGED <<clock, memory_cache, cache_files, llmOthers>>

\* pages/create.py: the rerun that generates the snippet.
CreateRunGeneration(first, second) ==
    /\ create_form_state.generating
    /\ create_form_state.generated_content = None
    /\ LET r == generate_learning_snippet(memory_cache, cache_files, clock,
                    create_form_state.topic, duration_map(create_form_state.length),
                    create_form_state.language, first, second)
       IN  /\ memory_cache' = r.cache
           /\ cache_files' = r.files
           /\ lastCall' = CallRecord("create_page", r)
           /\ create_form_state' =
                 IF ~r.result.error
                 THEN [create_form_state EXCEPT !.generated_content = r.result]
                 ELSE [create_form_state EXCEPT
                          !.error = "Failed to generate content. Please try again.",
                          !.generating = FALSE]
    /\ UNCHANGED <<clock, llmOthers>>

InitLLM ==
    /\ clock = 0
    /\ memory_cache = EmptyDict
    /\ cache_files = EmptyDict
    /\ create_form_state = [topic |-> "", length |-> "standard", language |-> "en",
                            voice_index |-> 0,
                            generated_content |-> None, generated_audio_path |-> None,
                            generating |-> FALSE, audio_generating |-> FALSE,
                            error |-> "None"]
    /\ lastCall = Idle

NextLLM ==
    \/ Tick
    \/ \E prompt \in Prompts, model_arg \in ModelArgs :
          \E first \in Outcomes : \E second \in SecondOutcomes(first) :
             GenerateContent(prompt, model_arg, first, second)
    \/ \E topic \in Topics, language \in Languages :
          \E first \in Outcomes : \E second \in SecondOutcomes(first) :
             GenerateLearningSnippet(topic, DEFAULT_SNIPPET_DURATION, language, first, second)
    \/ \E topic \in Topics, length \in Lengths, language \in Languages :
          CreateClickGenerate(topic, length, language)
    \/ \E first \in Outcomes : \E second \in SecondOutcomes(first) :
          CreateRunGeneration(first, second)

(***************************************************************************)
(* audio_utils.clean_text_for_tts                                          *)
(***************************************************************************)
\* A text is a sequence of tokens: words, " " (whitespace), "- " (a list
\* bullet and the blank after it) and "~" (a character of [#*_~`]).
Bullet == "- "

Special == "~"

Space == " "

\* re.sub(r'^\s*[-*•]\s+', '', text): a bullet at the start of the line goes.
RemoveBullet(text) ==
    IF text # <<>> /\ Head(text) = Bullet THEN Tail(text)
    ELSE IF Len(text) > 1 /\ Head(text) = Space /\ text[2] = Bullet THEN Tail(Tail(text))
    ELSE text

IsNotSpecial(token) == token # Special

\* re.sub(r'[#*_~`]', '', text)
RemoveSpecial(text) == SelectSeq(text, IsNotSpecial)

\* re.sub(r'\s+', ' ', text).strip(): no blank first, last or after a blank.
RECURSIVE CollapseSpaces(_, _)
CollapseSpaces(text, after_space) ==
    IF text = <<>> THEN <<>>
    ELSE IF Head(text) = Space
         THEN IF after_space \/ \A i \in 2..Len(text) : text[i] = Space
              THEN CollapseSpaces(Tail(text), TRUE)
              ELSE <<Space>> \o CollapseSpaces(Tail(text), TRUE)
         ELSE <<Head(text)>> \o CollapseSpaces(Tail(text), FALSE)

DefaultText == <<"Default text for speech synthesis.">>

clean_text_for_tts(text) ==
    IF text = <<>> THEN <<>>
    ELSE LET cleaned == CollapseSpaces(RemoveSpecial(RemoveBullet(text)), TRUE)
         IN  IF cleaned = <<>> THEN DefaultText ELSE cleaned

(***************************************************************************)
(* audio_utils.AudioEngine                                                 *)
(***************************************************************************)
AUDIO_FORMATS == {"mp3", "ogg", "wav"}

DEFAULT_AUDIO_FORMAT == "mp3"

AUDIO_COMPRESSION == TRUE

\* A file: absent, present and empty, or audio of a text made by a provider.
NoFile == [exists |-> FALSE, size |-> 0]

EmptyFile == [exists |-> TRUE, size |-> 0]

AudioFile(text, provider) == [exists |-> TRUE, size |-> 1, text |-> text, by |-> provider]

\* What a provider can do: "ok" writes a non-empty file, "empty" leaves an
\* empty file behind, "error" raises; the _generate_* methods return True
\* only for "ok".
ProviderOutcomes == {"ok", "empty", "error"}

\* One _generate_<provider>_audio(text, output_file) call on the file at output_file.
TryProvider(provider, outcome, text, file) ==
    [success |-> outcome = "ok",
     file    |-> IF outcome = "ok" THEN AudioFile(text, provider)
                 ELSE IF outcome = "empty" THEN EmptyFile
                 ELSE file]

\* _generate_edge_tts_audio returns False for an empty text before it calls the service.
EdgeOutcome(text, outcome) == IF text = <<>> THEN "error" ELSE outcome

\* AudioEngine.generate_audio without the `return True` after a successful
\* ElevenLabs call: Edge TTS runs as well.
engine_generate_audio_no_early_return(use_premium, text, file, outs) ==
    LET e   == IF use_premium THEN TryProvider("elevenlabs", outs.elevenlabs, text, file)
               ELSE [success |-> FALSE, file |-> file]
        pre == IF use_premium THEN <<"elevenlabs">> ELSE <<>>
        d   == TryProvider("edge-tts", EdgeOutcome(text, outs.edge), text, e.file)
        g   == TryProvider("gtts", outs.gtts, text, d.file)
    IN  IF d.success
        THEN [success |-> TRUE, file |-> d.file, tried |-> pre \o <<"edge-tts">>]
        ELSE [success |-> g.success, file |-> g.file, tried |-> pre \o <<"edge-tts", "gtts">>]

\* AudioEngine.generate_audio(text, output_file); use_premium is
\* premium and elevenlabs_available (__init__), outs the outcome each
\* provider would have, tried the providers invoked, in order.
engine_generate_audio(use_premium, text, file, outs) ==
    LET e   == IF use_premium THEN TryProvider("elevenlabs", outs.elevenlabs, text, file)
               ELSE [success |-> FALSE, file |-> file]
        pre == IF use_premium THEN <<"elevenlabs">> ELSE <<>>
        d   == TryProvider("edge-tts", EdgeOutcome(text, outs.edge), text, e.file)
        g   == TryProvider("gtts", outs.gtts, text, d.file)
    IN  IF use_premium /\ e.success
        THEN [success |-> TRUE, file |-> e.file, tried |-> <<"elevenlabs">>]
        ELSE IF d.success
        THEN [success |-> TRUE, file |-> d.file, tried |-> pre \o <<"edge-tts">>]
        ELSE [success |-> g.success, file |-> g.file, tried |-> pre \o <<"edge-tts", "gtts">>]

(***************************************************************************)
(* audio_utils.generate_audio                                              *)
(***************************************************************************)
\* f"{cleaned_title}. ... {cleaned_text}"
FullText(cleaned_title, cleaned_text) == cleaned_title \o <<". ... ">> \o cleaned_text

\* md5(full_text + language + str(voice_index) + str(premium))
ContentHash(full_text, language, voice_index, premium) ==
    <<full_text, language, voice_index, premium>>

\* generate_audio without the cache lookup of lines 358-363.
generate_audio_no_cache_lookup(dir, cache, uuid, available, text, title, language, voice_index, premium, format, outs) ==
    LET cleaned_title == clean_text_for_tts(title)
        cleaned_text  == clean_text_for_tts(text)
        full_text     == FullText(cleaned_title, cleaned_text)
        fmt           == IF format \in AUDIO_FORMATS THEN format ELSE DEFAULT_AUDIO_FORMAT
        filepath      == [uuid |-> uuid, format |-> fmt]
        cache_key     == <<ContentHash(full_text, language, voice_index, premium), fmt>>
        engine        == engine_generate_audio(premium /\ available, full_text, NoFile, outs)
        written       == Put(dir, filepath, engine.file)
    IN  IF cleaned_text = <<>> \/ cleaned_title = <<>>
        THEN [result |-> None, dir |-> dir, cache |-> cache, uuid |-> uuid,
              key |-> <<>>, tried |-> <<>>, steps |-> <<>>]
        ELSE IF engine.success
        THEN [result |-> filepath, dir |-> written, cache |-> Put(cache, cache_key, written[filepath]),
              uuid |-> uuid + 1, key |-> cache_key, tried |-> engine.tried,
              steps |-> <<"enhance_audio", "compress_audio">>]
        ELSE [result |-> None, dir |-> IF engine.file.exists THEN written ELSE dir,
              cache |-> cache, uuid |-> uuid + 1, key |-> cache_key,
              tried |-> engine.tried, steps |-> <<>>]

\* generate_audio without the copy into the cache of lines 386-390.
generate_audio_no_cache_store(dir, cache, uuid, available, text, title, language, voice_index, premium, format, outs) ==
    LET cleaned_title == clean_text_for_tts(title)
        cleaned_text  == clean_text_for_tts(text)
        full_text     == FullText(cleaned_title, cleaned_text)
        fmt           == IF format \in AUDIO_FORMATS THEN format ELSE DEFAULT_AUDIO_FORMAT
        filepath      == [uuid |-> uuid, format |-> fmt]
        cache_key     == <<ContentHash(full_text, language, voice_index, premium), fmt>>
        engine        == engine_generate_audio(premium /\ available, full_text, NoFile, outs)
        written       == Put(dir, filepath, engine.file)
    IN  IF cleaned_text = <<>> \/ cleaned_title = <<>>
        THEN [result |-> None, dir |-> dir, cache |-> cache, uuid |-> uuid,
              key |-> <<>>, tried |-> <<>>, steps |-> <<>>]
        ELSE IF cache_key \in DOMAIN cache /\ cache[cache_key].size > 0
        THEN [result |-> filepath, dir |-> Put(dir, filepath, cache[cache_key]), cache |-> cache,
              uuid |-> uuid + 1, key |-> cache_key, tried |-> <<>>, steps |-> <<>>]
        ELSE IF engine.success
        THEN [result |-> filepath, dir |-> written, cache |-> cache,
              uuid |-> uuid + 1, key |-> cache_key, tried |-> engine.tried,
              steps |-> <<"enhance_audio", "compress_audio">>]
        ELSE [result |-> None, dir |-> IF engine.file.exists THEN written ELSE dir,
              cache |-> cache, uuid |-> uuid + 1, key |-> cache_key,
              tried |-> engine.tried, steps |-> <<>>]

\* generate_audio(text, title, language, voice_index, premium, format) with
\* the outcome outs each provider would have.  uuid names the new file;
\* tried lists the providers invoked and steps the post-processing run.
\* enhance_audio and compress_audio rewrite the file in place (or leave it
\* as it was when they fail): the file stays the audio the provider made.
generate_audio(dir, cache, uuid, available, text, title, language, voice_index, premium, format, outs) ==
    LET cleaned_title == clean_text_for_tts(title)
        cleaned_text  == clean_text_for_tts(text)
        full_text     == FullText(cleaned_title, cleaned_text)
        fmt           == IF format \in AUDIO_FORMATS THEN format ELSE DEFAULT_AUDIO_FORMAT
        filepath      == [uuid |-> uuid, format |-> fmt]
        cache_key     == <<ContentHash(full_text, language, voice_index, premium), fmt>>
        engine        == engine_generate_audio(premium /\ available, full_text, NoFile, outs)
        written       == Put(dir, filepath, engine.file)
    IN  IF cleaned_text = <<>> \/ cleaned_title = <<>>
        THEN [result |-> None, dir |-> dir, cache |-> cache, uuid |-> uuid,
              key |-> <<>>, tried |-> <<>>, steps |-> <<>>]
        ELSE IF cache_key \in DOMAIN cache /\ cache[cache_key].size > 0
        THEN [result |-> filepath, dir |-> Put(dir, filepath, cache[cache_key]), cache |-> cache,
              uuid |-> uuid + 1, key |-> cache_key, tried |-> <<>>, steps |-> <<>>]
        ELSE IF engine.success
        THEN [result |-> filepath, dir |-> written,
              cache |-> IF filepath \in DOMAIN written /\ written[filepath].size > 0
                        THEN Put(cache, cache_key, written[filepath])
                        ELSE cache,
              uuid |-> uuid + 1, key |-> cache_key, tried |-> engine.tried,
              steps |-> IF AUDIO_COMPRESSION THEN <<"enhance_audio", "compress_audio">>
                        ELSE <<"enhance_audio">>]
        ELSE [result |-> None, dir |-> IF engine.file.exists THEN written ELSE dir,
              cache |-> cache, uuid |-> uuid + 1, key |-> cache_key,
              tried |-> engine.tried, steps |-> <<>>]

(***************************************************************************)
(* Inputs and actions of the audio specification                           *)
(***************************************************************************)
\* '' and 'Volcanoes'
Titles == {<<>>, <<"Volcanoes">>}

\* '', 'Magma rises.' and '- Magma rises.'
Texts == {<<>>, <<"Magma rises.">>, <<Bullet, "Magma rises.">>}

\* a supported format, and one that is not (generate_audio falls back to mp3)
Formats == {"mp3", "flac"}

\* The outcome of a provider matters only if the call reaches it: the title
\* and the text are not empty, and the providers before it in the chain failed.
ElevenOutcomes(text, title, premium) ==
    IF text # <<>> /\ title # <<>> /\ premium /\ elevenlabs_available
    THEN ProviderOutcomes ELSE {"error"}

EdgeOutcomes(text, title, premium, eleven) ==
    IF text # <<>> /\ title # <<>> /\ eleven # "ok" THEN ProviderOutcomes ELSE {"error"}

GttsOutcomes(text, title, premium, eleven, edge) ==
    IF text # <<>> /\ title # <<>> /\ eleven # "ok" /\ edge # "ok"
    THEN ProviderOutcomes ELSE {"error"}

IdleAudio == [op |-> "idle"]

GenerateAudio(text, title, language, voice_index, premium, format, outs) ==
    /\ next_uuid < MaxUuid
    /\ LET r == generate_audio(audio_dir, audio_cache, next_uuid, elevenlabs_available,
                               text, title, language, voice_index, premium, format, outs)
       IN  /\ audio_dir' = r.dir
           /\ audio_cache' = r.cache
           /\ next_uuid' = r.uuid
           /\ lastAudio' = [op |-> "generate_audio", text |-> text, title |-> title,
                            premium |-> premium, format |-> format, outs |-> outs,
                            key |-> r.key, result |-> r.result, tried |-> r.tried,
                            steps |-> r.steps,
                            cached_before |-> /\ r.key \in DOMAIN audio_cache
                                              /\ audio_cache[r.key].size > 0,
                            cache_before |-> audio_cache,
                            files_before |-> DOMAIN audio_dir]
    /\ UNCHANGED <<elevenlabs_available, audioOthers>>

AudioStart ==
    /\ audio_dir = EmptyDict
    /\ audio_cache = EmptyDict
    /\ next_uuid = 0
    /\ lastAudio = IdleAudio

InitAudio ==
    /\ elevenlabs_available \in BOOLEAN
    /\ AudioStart

NextAudio ==
    \E text \in Texts, title \in Titles, premium \in BOOLEAN, format \in Formats :
       \E eleven \in ElevenOutcomes(text, title, premium) :
          \E edge \in EdgeOutcomes(text, title, premium, eleven) :
             \E gtts \in GttsOutcomes(text, title, premium, eleven, edge) :
                GenerateAudio(text, title, "en", 0, premium, format,
                              [elevenlabs |-> eleven, edge |-> edge, gtts |-> gtts])

(***************************************************************************)
(* config.py: gamification                                                 *)
(***************************************************************************)
POINTS == [snippet_created |-> 10, playlist_created |-> 20, quiz_completed |-> 15,
           daily_login |-> 5, share_content |-> 5, feedback_provided |-> 10]

ACHIEVEMENTS == <<[id |-> "first_snippet", points |-> 10],
                  [id |-> "knowledge_explorer", points |-> 25],
                  [id |-> "polyglot", points |-> 30],
                  [id |-> "quiz_master", points |-> 50],
                  [id |-> "daily_learner", points |-> 35]>>

(***************************************************************************)
(* data_utils.UserSession                                                  *)
(***************************************************************************)
\* dict.get(key, default)
Get(d, key, default) == IF key \in DOMAIN d THEN d[key] ELSE default

\* the elements of a list
Elements(list) == {list[i] : i \in DOMAIN list}

\* UserSession.__init__ without a user_id, at time t: the fields the session
\* methods modelled here read or write (today is day 0).
NewUserSession(t) ==
    [snippets |-> <<>>,
     history |-> <<>>,
     start_time |-> t,
     analytics |-> [topics_viewed |-> EmptyDict,
                    session_duration |-> 0,
                    languages_used |-> EmptyDict,
                    playlist_count |-> 0,
                    last_activity |-> t,
                    daily_streak |-> 0,
                    last_login_date |-> 0,
                    quiz_scores |-> <<>>,
                    topics_completed |-> 0,
                    total_learning_time |-> 0],
     achievements |-> <<>>,
     points |-> 0,
     is_authenticated |-> FALSE]

add_points(self, activity_type) ==
    IF activity_type \in DOMAIN POINTS
    THEN [self EXCEPT !.points = @ + POINTS[activity_type]]
    ELSE self

_award_achievement(self, achievement_id) ==
    IF /\ achievement_id \in {ACHIEVEMENTS[i].id : i \in DOMAIN ACHIEVEMENTS}
       /\ achievement_id \notin Elements(self.achievements)
    THEN LET achievement == ACHIEVEMENTS[CHOOSE i \in DOMAIN ACHIEVEMENTS :
                                            ACHIEVEMENTS[i].id = achievement_id]
         IN  [self EXCEPT !.achievements = Append(@, achievement_id),
                          !.points = @ + achievement.points]
    ELSE self

_check_achievements(self) ==
    LET starter == IF /\ Len(self.snippets) = 1
                      /\ "first_snippet" \notin Elements(self.achievements)
                   THEN _award_achievement(self, "first_snippet")
                   ELSE self
        topics == {Get(self.snippets[i], "topic", "") : i \in DOMAIN self.snippets}
        explorer == IF /\ Cardinality(topics) >= 5
                       /\ "knowledge_explorer" \notin Elements(starter.achievements)
                    THEN _award_achievement(starter, "knowledge_explorer")
                    ELSE starter
        languages == {Get(self.snippets[i], "language", "") : i \in DOMAIN self.snippets}
    IN  IF /\ Cardinality(languages) >= 3
           /\ "polyglot" \notin Elements(explorer.achievements)
        THEN _award_achievement(explorer, "polyglot")
        ELSE explorer

\* history[-20:]
Last20(history) ==
    IF Len(history) > 20 THEN SubSeq(history, Len(history) - 19, Len(history)) ELSE history

\* add_snippet once the snippet's id is known to be new (the session is not
\* authenticated, so nothing is saved).
append_snippet(self, snippet, t) ==
    LET topic    == Get(snippet, "topic", "unknown")
        language == Get(snippet, "language", "en")
        added    == [self EXCEPT
                       !.snippets = Append(@, snippet),
                       !.history = Last20(Append(@, topic)),
                       !.analytics.last_activity = t,
                       !.analytics.topics_viewed = Put(@, topic, Get(@, topic, 0) + 1),
                       !.analytics.languages_used = Put(@, language, Get(@, language, 0) + 1),
                       !.analytics.topics_completed = @ + 1,
                       !.analytics.total_learning_time =
                           IF "audio_duration" \in DOMAIN snippet
                           THEN @ + snippet.audio_duration
                           ELSE @]
    IN  _check_achievements(add_points(added, "snippet_created"))

\* add_snippet with the test for an existing id left out
add_snippet_without_duplicate_check(self, snippet, t) ==
    [result |-> TRUE, self |-> append_snippet(self, snippet, t)]

add_snippet(self, snippet, t) ==
    LET existing_ids == {self.snippets[i].id : i \in DOMAIN self.snippets}
    IN  IF snippet.id \in existing_ids
        THEN [result |-> FALSE, self |-> self]
        ELSE [result |-> TRUE, self |-> append_snippet(self, snippet, t)]

remove_snippet(self, snippet_id) ==
    LET found == {i \in DOMAIN self.snippets : self.snippets[i].id = snippet_id}
    IN  IF found = {}
        THEN [result |-> FALSE, self |-> self]
        ELSE LET i == CHOOSE i \in found : \A j \in found : i <= j
             IN  [result |-> TRUE, self |-> [self EXCEPT !.snippets = DropAt(@, i)]]

(***************************************************************************)
(* Inputs and actions of the session specification                         *)
(***************************************************************************)
\* Snippets offered to add_snippet: two share an id, one has neither topic,
\* language nor audio_duration.
OfferedSnippets ==
    {[id |-> "s1", title |-> "Volcanoes", topic |-> "volcanoes", language |-> "en",
      audio_duration |-> 60],
     [id |-> "s1", title |-> "Tides", topic |-> "tides", language |-> "fr"],
     [id |-> "s2", title |-> "Tides", topic |-> "tides", language |-> "fr",
      audio_duration |-> 30],
     [id |-> "s3", title |-> "Untitled"]}

SnippetIds == {"s1", "s2", "s3"}

IdleSession == [op |-> "idle"]

AddSnippet(snippet) ==
    /\ session_calls < MaxSessionCalls
    /\ LET r == add_snippet(user_session, snippet, clock)
       IN  /\ user_session' = r.self
           /\ lastSession' = [op |-> "add_snippet", snippet |-> snippet,
                              result |-> r.result, before |-> user_session]
    /\ session_calls' = session_calls + 1
    /\ UNCHANGED <<clock, sessionOthers>>

RemoveSnippet(snippet_id) ==
    /\ session_calls < MaxSessionCalls
    /\ LET r == remove_snippet(user_session, snippet_id)
       IN  /\ user_session' = r.self
           /\ lastSession' = [op |-> "remove_snippet", snippet_id |-> snippet_id,
                              result |-> r.result, before |-> user_session]
    /\ session_calls' = session_calls + 1
    /\ UNCHANGED <<clock, sessionOthers>>

InitSession ==
    /\ user_session = NewUserSession(0)
    /\ session_calls = 0
    /\ lastSession = IdleSession

NextSession ==
    \/ Tick
    \/ \E snippet \in OfferedSnippets : AddSnippet(snippet)
    \/ \E snippet_id \in SnippetIds : RemoveSnippet(snippet_id)

(***************************************************************************)
(* data_utils.UserSession.update_session_analytics                         *)
(***************************************************************************)
\* t is time.time() and day is datetime.date.today() at the call.
update_session_analytics(self, t, day) ==
    LET timed == [self EXCEPT !.analytics.session_duration = t - self.start_time,
                              !.analytics.last_activity = t]
        delta == day - timed.analytics.last_login_date
    IN  IF timed.analytics.last_login_date # day
        THEN LET counted ==
                   IF delta = 1
                   THEN LET grown == add_points(
                                  [timed EXCEPT !.analytics.daily_streak = @ + 1], "daily_login")
                        IN  IF grown.analytics.daily_streak >= 7
                            THEN _award_achievement(grown, "daily_learner")
                            ELSE grown
                   ELSE IF delta > 1
                        THEN [timed EXCEPT !.analytics.daily_streak = 1]
                        ELSE timed
             IN  [counted EXCEPT !.analytics.last_login_date = day]
        ELSE timed

IdleStreak == [op |-> "idle"]

\* Midnight passes.
NextDay ==
    /\ today < MaxDay
    /\ today' = today + 1
    /\ UNCHANGED <<used_days, lastStreak, user_session, streakOthers>>

UpdateSessionAnalytics ==
    /\ user_session' = update_session_analytics(user_session, clock, today)
    /\ used_days' = used_days \cup {today}
    /\ lastStreak' = [op |-> "update_session_analytics", on |-> today,
                      before |-> user_session.analytics]
    /\ UNCHANGED <<today, streakOthers>>

InitStreak ==
    /\ today = 0
    /\ used_days = {}
    /\ lastStreak = IdleStreak

NextStreak ==
    \/ NextDay
    \/ UpdateSessionAnalytics

(***************************************************************************)
(* data_utils.UserSession.record_quiz_score                                *)
(***************************************************************************)
\* round((score / max_score) * 100): Python rounds halves to the even integer
Percentage(score, max_score) ==
    LET q == (score * 100) \div max_score
        r == 2 * ((score * 100) % max_score)
    IN  IF r < max_score THEN q
        ELSE IF r > max_score THEN q + 1
        ELSE IF q % 2 = 0 THEN q ELSE q + 1

PerfectScores(self) ==
    Cardinality({i \in DOMAIN self.analytics.quiz_scores :
                   self.analytics.quiz_scores[i].score = self.analytics.quiz_scores[i].max_score})

record_quiz_score(self, topic, score, max_score, t) ==
    LET quiz_result == [topic |-> topic, score |-> score, max_score |-> max_score,
                        percentage |-> Percentage(score, max_score), timestamp |-> t]
        recorded == add_points([self EXCEPT !.analytics.quiz_scores = Append(@, quiz_result)],
                               "quiz_completed")
    IN  IF /\ score = max_score
           /\ PerfectScores(recorded) >= 10
           /\ "quiz_master" \notin Elements(recorded.achievements)
        THEN _award_achievement(recorded, "quiz_master")
        ELSE recorded

(***************************************************************************)
(* pages/quiz.py                                                           *)
(***************************************************************************)
\* a float where None may stand as well
Float(v) == [kind |-> "float", v |-> v]

\* reset_quiz_state()
NewQuizState ==
    [active_quiz |-> None, current_question |-> 0, answers |-> EmptyDict, score |-> 0,
     total_questions |-> 0, quiz_complete |-> FALSE, timer_start |-> None,
     time_taken |-> 0, feedback |-> EmptyDict]

reset_quiz_state(state, keep_quiz) ==
    [NewQuizState EXCEPT !.active_quiz = IF keep_quiz THEN state.active_quiz ELSE None,
                         !.total_questions = IF keep_quiz THEN state.total_questions ELSE 0]

\* start_quiz_from_snippet and start_standalone_quiz: questions is what
\* generate_quiz_questions returned; an empty list leaves the state alone.
start_quiz(state, quiz_id, topic, questions) ==
    IF questions # <<>>
    THEN [reset_quiz_state(state, FALSE) EXCEPT
            !.active_quiz = [id |-> quiz_id, topic |-> topic, questions |-> questions],
            !.total_questions = Len(questions)]
    ELSE state

\* Question current_question of the active quiz (the list is 0-based).
CurrentQuestion(state) == state.active_quiz.questions[state.current_question + 1]

\* The end of both button handlers of display_active_quiz: the next question,
\* or the quiz is complete and record_quiz_results stores the score.
next_or_complete(page, elapsed, t) ==
    IF page.state.current_question + 1 < page.state.total_questions
    THEN [page EXCEPT !.state.current_question = @ + 1]
    ELSE [state |-> [page.state EXCEPT !.quiz_complete = TRUE, !.time_taken = elapsed],
          session |-> record_quiz_score(page.session, page.state.active_quiz.topic,
                                        page.state.score, page.state.total_questions, t)]

\* A click on option option_key of the question shown.
answer_question(state, session, option_key, t) ==
    LET current_q  == state.current_question
        question   == CurrentQuestion(state)
        is_correct == option_key = question.answer
        answered   == [state EXCEPT
                         !.answers = Put(@, current_q, option_key),
                         !.score = IF is_correct THEN @ + 1 ELSE @,
                         !.feedback = Put(@, current_q,
                                          [selected |-> option_key, correct |-> question.answer,
                                           is_correct |-> is_correct])]
    IN  next_or_complete([state |-> answered, session |-> session], t - state.timer_start.v, t)

\* the skip handler with the skipped question counted as correct
skip_question_adding_to_score(state, session, t) ==
    next_or_complete(
        [state |-> [state EXCEPT !.answers = Put(@, state.current_question, "skipped"),
                                 !.score = @ + 1],
         session |-> session], t - state.timer_start.v, t)

\* A click on 'skip question'.
skip_question(state, session, t) ==
    LET current_q == state.current_question
        question  == CurrentQuestion(state)
        skipped   == [state EXCEPT
                        !.answers = Put(@, current_q, "skipped"),
                        !.feedback = Put(@, current_q,
                                         [selected |-> "skipped", correct |-> question.answer,
                                          is_correct |-> FALSE])]
    IN  next_or_complete([state |-> skipped, session |-> session], t - state.timer_start.v, t)

(***************************************************************************)
(* Inputs and actions of the quiz specification                            *)
(***************************************************************************)
Question(options, answer) == [options |-> options, answer |-> answer]

\* What generate_quiz_questions may return: nothing, one question, or two; the
\* last question has no parsed answer line.
QuestionLists ==
    {<<>>,
     <<Question({"A", "B"}, "A")>>,
     <<Question({"A", "B"}, "B"), Question({"A"}, "None")>>}

\* The selection page is shown while there is no active quiz.
StartQuiz(questions) ==
    /\ quiz_state.active_quiz = None
    /\ quiz_count < MaxQuizzes
    /\ quiz_state' = start_quiz(quiz_state, quiz_count + 1, "volcanoes", questions)
    /\ quiz_count' = quiz_count + 1
    /\ UNCHANGED <<clock, user_session, quizOthers>>

ActiveQuizShown ==
    /\ quiz_state.active_quiz # None
    /\ ~quiz_state.quiz_complete

\* A run of the page that shows the question and starts the timer.
DisplayActiveQuiz ==
    /\ ActiveQuizShown
    /\ quiz_state.timer_start = None
    /\ quiz_state' = [quiz_state EXCEPT !.timer_start = Float(clock)]
    /\ UNCHANGED <<clock, user_session, quiz_count, quizOthers>>

\* The buttons of a question exist once a run has shown it.  current_question
\* is below len(questions) in every reachable state, so the 'complete quiz'
\* button of the else branch is never shown.
AnswerQuestion(option_key) ==
    /\ ActiveQuizShown
    /\ quiz_state.timer_start # None
    /\ quiz_state.current_question < Len(quiz_state.active_quiz.questions)
    /\ option_key \in CurrentQuestion(quiz_state).options
    /\ LET r == answer_question(quiz_state, user_session, option_key, clock)
       IN  /\ quiz_state' = r.state
           /\ user_session' = r.session
    /\ UNCHANGED <<clock, quiz_count, quizOthers>>

SkipQuestion ==
    /\ ActiveQuizShown
    /\ quiz_state.timer_start # None
    /\ quiz_state.current_question < Len(quiz_state.active_quiz.questions)
    /\ LET r == skip_question(quiz_state, user_session, clock)
       IN  /\ quiz_state' = r.state
           /\ user_session' = r.session
    /\ UNCHANGED <<clock, quiz_count, quizOthers>>

\* 'Retry' and 'New quiz' on the results page.
RetryQuiz ==
    /\ quiz_state.active_quiz # None
    /\ quiz_state.quiz_complete
    /\ quiz_count < MaxQuizzes
    /\ quiz_state' = reset_quiz_state(quiz_state, TRUE)
    /\ quiz_count' = quiz_count + 1
    /\ UNCHANGED <<clock, user_session, quizOthers>>

NewQuiz ==
    /\ quiz_state.active_quiz # None
    /\ quiz_state.quiz_complete
    /\ quiz_state' = reset_quiz_state(quiz_state, FALSE)
    /\ UNCHANGED <<clock, user_session, quiz_count, quizOthers>>

InitQuiz ==
    /\ quiz_state = NewQuizState
    /\ quiz_count = 0

NextQuiz ==
    \/ Tick
    \/ \E questions \in QuestionLists : StartQuiz(questions)
    \/ DisplayActiveQuiz
    \/ \E option_key \in {"A", "B"} : AnswerQuestion(option_key)
    \/ SkipQuestion
    \/ RetryQuiz
    \/ NewQuiz

(***************************************************************************)
(* cache_utils.MemoryCache                                                 *)
(***************************************************************************)
\* MemoryCache(max_size = 2, ttl = 2)
max_size == 2

default_ttl == 2

\* a cached value
Val(v) == [kind |-> "value", v |-> v]

\* access_times is a dict in insertion order: a list of entries with distinct keys
TimesKeys(times) == {times[i].key : i \in DOMAIN times}

TimesOf(times, key) == times[CHOOSE i \in DOMAIN times : times[i].key = key]

\* access_times.pop(key)
TimesPop(times, key) == SelectSeq(times, LAMBDA e : e.key # key)

\* access_times[key] = entry: in place for a key the dict has, else at the end
TimesPut(times, entry) ==
    IF entry.key \in TimesKeys(times)
    THEN [i \in DOMAIN times |-> IF times[i].key = entry.key THEN entry ELSE times[i]]
    ELSE Append(times, entry)

\* min(self.access_times.items(), key = accessed)[0]: the first of the
\* entries with the smallest accessed
LruKey(times) ==
    times[CHOOSE i \in DOMAIN times :
            /\ \A j \in DOMAIN times : times[i].accessed <= times[j].accessed
            /\ \A j \in 1..(i - 1) : times[j].accessed > times[i].accessed].key

\* get whose hit also restarts the entry's life (created := now)
get_step_renewing_entry(self, frame, t) ==
    IF frame.pc = "get"
    THEN IF frame.key \in DOMAIN self.cache
         THEN LET entry == TimesOf(self.access_times, frame.key)
              IN  IF t - entry.created > entry.ttl
                  THEN [self  |-> [self EXCEPT !.cache = Remove(@, frame.key)],
                        frame |-> [frame EXCEPT !.pc = "get_pop_times"]]
                  ELSE [self  |-> [self EXCEPT !.access_times =
                                      TimesPut(@, [entry EXCEPT !.accessed = t,
                                                                !.created = t])],
                        frame |-> [frame EXCEPT !.pc = "release",
                                                !.result = self.cache[frame.key]]]
         ELSE [self |-> self, frame |-> [frame EXCEPT !.pc = "release", !.result = None]]
    ELSE [self  |-> [self EXCEPT !.access_times = TimesPop(@, frame.key)],
          frame |-> [frame EXCEPT !.pc = "release", !.result = None]]

\* One statement of a call inside 'with self.lock'.  self is the cache
\* object, frame the locals of the call with the statement it is at in pc,
\* t is time.time().  pc "release" is the end of the with block.
get_step(self, frame, t) ==
    IF frame.pc = "get"
    THEN IF frame.key \in DOMAIN self.cache
         THEN LET entry == TimesOf(self.access_times, frame.key)
              IN  IF t - entry.created > entry.ttl
                  THEN [self  |-> [self EXCEPT !.cache = Remove(@, frame.key)],
                        frame |-> [frame EXCEPT !.pc = "get_pop_times"]]
                  ELSE [self  |-> [self EXCEPT !.access_times =
                                      TimesPut(@, [entry EXCEPT !.accessed = t])],
                        frame |-> [frame EXCEPT !.pc = "release",
                                                !.result = self.cache[frame.key]]]
         ELSE [self |-> self, frame |-> [frame EXCEPT !.pc = "release", !.result = None]]
    ELSE \* "get_pop_times"
         [self  |-> [self EXCEPT !.access_times = TimesPop(@, frame.key)],
          frame |-> [frame EXCEPT !.pc = "release", !.result = None]]

\* set that never calls _remove_lru
set_step_without_eviction(self, frame, t) ==
    IF frame.pc \in {"set", "set_store"}
    THEN [self  |-> [self EXCEPT !.cache = Put(@, frame.key, frame.value)],
          frame |-> [frame EXCEPT !.pc = "set_store_times"]]
    ELSE [self  |-> [self EXCEPT !.access_times =
                        TimesPut(@, [key |-> frame.key, created |-> t, accessed |-> t,
                                     ttl |-> frame.ttl])],
          frame |-> [frame EXCEPT !.pc = "release", !.result = None]]

set_step(self, frame, t) ==
    IF /\ frame.pc = "set"
       /\ Cardinality(DOMAIN self.cache) >= max_size
       /\ frame.key \notin DOMAIN self.cache
       /\ self.access_times # <<>>
    THEN \* _remove_lru: self.cache.pop(lru_key)
         LET lru_key == LruKey(self.access_times)
         IN  [self  |-> [self EXCEPT !.cache = Remove(@, lru_key)],
              frame |-> [frame EXCEPT !.pc = "lru_pop_times", !.lru_key = lru_key]]
    ELSE IF frame.pc = "lru_pop_times"
    THEN [self  |-> [self EXCEPT !.access_times = TimesPop(@, frame.lru_key)],
          frame |-> [frame EXCEPT !.pc = "set_store"]]
    ELSE IF frame.pc \in {"set", "set_store"}
    THEN [self  |-> [self EXCEPT !.cache = Put(@, frame.key, frame.value)],
          frame |-> [frame EXCEPT !.pc = "set_store_times"]]
    ELSE \* "set_store_times"
         [self  |-> [self EXCEPT !.access_times =
                        TimesPut(@, [key |-> frame.key, created |-> t, accessed |-> t,
                                     ttl |-> frame.ttl])],
          frame |-> [frame EXCEPT !.pc = "release", !.result = None]]

delete_step(self, frame) ==
    IF frame.pc = "delete"
    THEN IF frame.key \in DOMAIN self.cache
         THEN [self  |-> [self EXCEPT !.cache = Remove(@, frame.key)],
               frame |-> [frame EXCEPT !.pc = "delete_pop_times"]]
         ELSE [self |-> self, frame |-> [frame EXCEPT !.pc = "release", !.result = FALSE]]
    ELSE \* "delete_pop_times"
         [self  |-> [self EXCEPT !.access_times = TimesPop(@, frame.key)],
          frame |-> [frame EXCEPT !.pc = "release", !.result = TRUE]]

clear_step(self, frame) ==
    IF frame.pc = "clear"
    THEN [self  |-> [self EXCEPT !.cache = EmptyDict],
          frame |-> [frame EXCEPT !.pc = "clear_times"]]
    ELSE \* "clear_times"
         [self  |-> [self EXCEPT !.access_times = <<>>],
          frame |-> [frame EXCEPT !.pc = "release", !.result = None]]

(***************************************************************************)
(* Inputs and actions of the LRU cache specification                       *)
(***************************************************************************)
Threads == {1, 2}

NoThread == 0

CacheKeys == {"a", "b", "c"}

\* keys looked up and keys deleted
GetKeys == {"a", "b"}

DeleteKeys == {"a"}

\* value and ttl argument of the set calls on each key: without a ttl, or
\* with a ttl of one tick
SetArguments(key) ==
    IF key = "b" THEN [value |-> Val("v2"), ttl |-> Float(1)]
                 ELSE [value |-> Val("v1"), ttl |-> None]

IdleFrame == [pc |-> "idle"]

IdleCache == [op |-> "idle"]

\* The locals of a call that is about to enter 'with self.lock'.
Frame(op, key, value, ttl) ==
    [pc |-> "wait", op |-> op, key |-> key, value |-> value, ttl |-> ttl,
     lru_key |-> "", result |-> None, before |-> None]

\* A thread calls a method; set resolves its ttl before it takes the lock.
CallGet(th, key) ==
    /\ threads[th].pc = "idle"
    /\ threads' = [threads EXCEPT ![th] = Frame("get", key, None, 0)]
    /\ UNCHANGED <<clock, lru_cache, access_times, lock, recency, lastCache, cacheOthers>>

CallSet(th, key, arguments) ==
    /\ threads[th].pc = "idle"
    /\ threads' = [threads EXCEPT ![th] =
                     Frame("set", key, arguments.value,
                           IF arguments.ttl = None THEN default_ttl ELSE arguments.ttl.v)]
    /\ UNCHANGED <<clock, lru_cache, access_times, lock, recency, lastCache, cacheOthers>>

CallDelete(th, key) ==
    /\ threads[th].pc = "idle"
    /\ threads' = [threads EXCEPT ![th] = Frame("delete", key, None, 0)]
    /\ UNCHANGED <<clock, lru_cache, access_times, lock, recency, lastCache, cacheOthers>>

CallClear(th) ==
    /\ threads[th].pc = "idle"
    /\ threads' = [threads EXCEPT ![th] = Frame("clear", "", None, 0)]
    /\ UNCHANGED <<clock, lru_cache, access_times, lock, recency, lastCache, cacheOthers>>

\* with self.lock: the thread waits until the lock is free
Acquire(th) ==
    /\ threads[th].pc = "wait"
    /\ lock = NoThread
    /\ lock' = th
    /\ threads' = [threads EXCEPT ![th].pc = threads[th].op,
                                  ![th].before = [keys |-> DOMAIN lru_cache,
                                                  recency |-> recency]]
    /\ UNCHANGED <<clock, lru_cache, access_times, recency, lastCache, cacheOthers>>

\* The keys in order of their last successful get or set, after a statement:
\* a key that is got or set moves to the end, a key no longer stored leaves.
RecencyAfter(frame, after) ==
    LET used   == \/ frame.pc = "set_store_times"
                  \/ frame.pc = "get" /\ after.frame.pc = "release"
                                      /\ after.frame.result # None
        stored == DOMAIN after.self.cache \cup TimesKeys(after.self.access_times)
        kept   == SelectSeq(recency, LAMBDA k : k \in stored /\ ~(used /\ k = frame.key))
    IN  IF used THEN Append(kept, frame.key) ELSE kept

\* What a returned call leaves for the claims to read: the call, its result,
\* and whether the key was stored when the call took the lock.
Returned(frame) ==
    [op |-> frame.op, key |-> frame.key, result |-> frame.result,
     held |-> frame.key \in frame.before.keys]

\* The thread that holds the lock runs its next statement; after the last
\* one the with block ends: the lock is released and the call returns.
Statement(th) ==
    /\ lock = th
    /\ LET self  == [cache |-> lru_cache, access_times |-> access_times]
           frame == threads[th]
           after == CASE frame.op = "get"    -> get_step(self, frame, clock)
                      [] frame.op = "set"    -> set_step(self, frame, clock)
                      [] frame.op = "delete" -> delete_step(self, frame)
                      [] frame.op = "clear"  -> clear_step(self, frame)
           done  == after.frame.pc = "release"
       IN  /\ lru_cache' = after.self.cache
           /\ access_times' = after.self.access_times
           /\ recency' = RecencyAfter(frame, after)
           /\ threads' = [threads EXCEPT ![th] = IF done THEN IdleFrame ELSE after.frame]
           /\ lock' = IF done THEN NoThread ELSE lock
           /\ lastCache' = IF done THEN Returned(after.frame)
                                   ELSE lastCache
    /\ UNCHANGED <<clock, cacheOthers>>

InitCache ==
    /\ lru_cache = EmptyDict
    /\ access_times = <<>>
    /\ lock = NoThread
    /\ threads = [th \in Threads |-> IdleFrame]
    /\ recency = <<>>
    /\ lastCache = IdleCache

NextCache ==
    \/ Tick
    \/ \E th \in Threads, key \in GetKeys : CallGet(th, key)
    \/ \E th \in Threads, key \in CacheKeys : CallSet(th, key, SetArguments(key))
    \/ \E th \in Threads, key \in DeleteKeys : CallDelete(th, key)
    \/ \E th \in Threads : CallClear(th)
    \/ \E th \in Threads : Acquire(th)
    \/ \E th \in Threads : Statement(th)

(***************************************************************************)
(* auth_utils.UserManager                                                  *)
(***************************************************************************)
\* The profile files hold json.dump of dicts of str, float, bool, list and
\* dict values with str keys, which json.load reads back unchanged:
\* user_files maps the id in a file's name to the dict in it.

\* str(uuid.uuid4()) of the n-th draw
UserId(n) == n

_username_exists(files, username) ==
    \E id \in DOMAIN files : files[id].username = username

_email_exists(files, email) ==
    \E id \in DOMAIN files : files[id].email = email

\* _save_user: the file is named after the id in the profile
_save_user(files, user) == Put(files, user.id, user)

\* st.session_state.get("language", "en") and .get("theme", "dark") while the
\* page has set neither
NewProfile(user_id, username, email, provider, t) ==
    [id |-> user_id, username |-> username, email |-> email, provider |-> provider,
     created_at |-> t, last_login |-> t,
     preferences |-> [language |-> "en", theme |-> "dark", voice_index |-> 0,
                      premium_voice |-> FALSE],
     stats |-> [snippets_created |-> 0, snippets_listened |-> 0, quizzes_taken |-> 0,
                points |-> 0, achievements |-> <<>>]]

create_user(files, uuid, username, email, password, provider, t) ==
    LET user_id == UserId(uuid + 1)
    IN  IF _username_exists(files, username) \/ _email_exists(files, email)
        THEN [result |-> None, files |-> files, uuid |-> uuid + 1]
        ELSE LET user == NewProfile(user_id, username, email, provider, t)
             IN  [result |-> user, files |-> _save_user(files, user), uuid |-> uuid + 1]

get_user(files, user_id) == IF user_id \in DOMAIN files THEN files[user_id] ELSE None

\* get_user_by_email returns the first match in the order of os.listdir,
\* which is arbitrary: any of these, or None when the set is empty.
UsersWithEmail(files, email) == {files[id] : id \in {i \in DOMAIN files : files[i].email = email}}

\* isinstance(user[key], dict): the profile's nested objects
DictFields == {"preferences", "stats"}

\* dict.update
Merge(d, other) ==
    [k \in (DOMAIN d) \cup (DOMAIN other) |-> IF k \in DOMAIN other THEN other[k] ELSE d[k]]

update_user(files, user_id, updates) ==
    LET user == get_user(files, user_id)
    IN  IF user # None
        THEN LET updated == [key \in DOMAIN user |->
                                IF key \in DOMAIN updates
                                THEN IF key \in DictFields
                                     THEN Merge(user[key], updates[key])
                                     ELSE updates[key]
                                ELSE user[key]]
             IN  [result |-> updated, files |-> _save_user(files, updated)]
        ELSE [result |-> None, files |-> files]

\* authenticate that returns the profile without touching last_login
authenticate_without_login_update(files, email, password, t, user) ==
    [result |-> user, files |-> files]

\* user is what get_user_by_email(email) returned
authenticate(files, email, password, t, user) ==
    IF user # None
    THEN LET logged_in == [user EXCEPT !.last_login = t]
         IN  [result |-> logged_in, files |-> _save_user(files, logged_in)]
    ELSE [result |-> None, files |-> files]

\* UserManager._check_achievements: only first_snippet and quiz_master have a
\* condition; the other three branches are 'pass'.
EarnedNow(user, achievement) ==
    /\ achievement.id \notin {user.stats.achievements[i].id : i \in DOMAIN user.stats.achievements}
    /\ \/ achievement.id = "first_snippet" /\ Get(user.stats, "snippets_created", 0) >= 1
       \/ achievement.id = "quiz_master" /\ Get(user.stats, "quizzes_taken", 0) >= 10

\* sum(a['points'] for a in achievements[i..])
RECURSIVE SumPoints(_, _)
SumPoints(achievements, i) ==
    IF i > Len(achievements) THEN 0
    ELSE achievements[i].points + SumPoints(achievements, i + 1)

manager_check_achievements(files, user_id) ==
    LET user == get_user(files, user_id)
    IN  IF user = None
        THEN files
        ELSE LET new_achievements == SelectSeq(ACHIEVEMENTS, LAMBDA a : EarnedNow(user, a))
             IN  IF new_achievements # <<>>
                 THEN _save_user(files,
                          [user EXCEPT !.stats.achievements = @ \o new_achievements,
                                       !.stats.points = @ + SumPoints(new_achievements, 1)])
                 ELSE files

\* The dict of award_points is its own copy of the profile: the points that
\* _check_achievements adds go to the file, not to this dict.
award_points(files, user_id, action, extra_points) ==
    LET user == get_user(files, user_id)
    IN  IF user = None
        THEN [result |-> 0, files |-> files]
        ELSE LET points == Get(POINTS, action, 0) + extra_points
             IN  IF points > 0
                 THEN LET awarded == [user EXCEPT !.stats.points = @ + points]
                      IN  [result |-> awarded.stats.points,
                           files |-> manager_check_achievements(_save_user(files, awarded),
                                                                user_id)]
                 ELSE [result |-> user.stats.points, files |-> files]

(***************************************************************************)
(* Inputs and actions of the user-profile specification                    *)
(***************************************************************************)
Usernames == {"ana", "bob"}

Emails == {"ana@x.org", "bob@x.org"}

\* passwords typed at login; accounts are created with the first
Passwords == {"pw1", "pw2"}

CreatePasswords == {"pw1"}

\* ids given to update_user and award_points: the first profile made and one
\* that is made last or never
UserIds == {UserId(1), UserId(3)}

\* updates dicts given to update_user: a new email, a new username, a nested
\* preference, and a key no profile has
Updates ==
    {[email |-> "ana@x.org"], [username |-> "ana"],
     [preferences |-> [theme |-> "light"]], [nickname |-> "a"],
     [stats |-> [snippets_created |-> 1, quizzes_taken |-> 10]]}

\* <<action, extra_points>> given to award_points: an action of POINTS, and one
\* that is not with a deduction
AwardArguments == {<<"snippet_created", 0>>, <<"dance", -10>>}

IdleUser == [op |-> "idle"]

CreateUser(username, email, password) ==
    /\ next_user_id < MaxUserIds
    /\ LET r == create_user(user_files, next_user_id, username, email, password, "local", clock)
       IN  /\ user_files' = r.files
           /\ next_user_id' = r.uuid
           /\ credentials' = IF r.result # None
                             THEN credentials \cup {<<email, password>>}
                             ELSE credentials
           /\ lastUser' = [op |-> "create_user", username |-> username, email |-> email,
                           password |-> password, at |-> clock,
                           result |-> r.result, before |-> user_files]
    /\ UNCHANGED <<clock, user_calls, userOthers>>

UpdateUser(user_id, updates) ==
    /\ user_calls < MaxUserCalls
    /\ LET r == update_user(user_files, user_id, updates)
       IN  /\ user_files' = r.files
           /\ lastUser' = [op |-> "update_user", user_id |-> user_id, updates |-> updates,
                           at |-> clock,
                           result |-> r.result, before |-> user_files]
    /\ user_calls' = user_calls + 1
    /\ UNCHANGED <<clock, next_user_id, credentials, userOthers>>

Authenticate(email, password) ==
    /\ user_calls < MaxUserCalls
    /\ \E user \in IF UsersWithEmail(user_files, email) = {}
                   THEN {None}
                   ELSE UsersWithEmail(user_files, email) :
          LET r == authenticate(user_files, email, password, clock, user)
          IN  /\ user_files' = r.files
              /\ lastUser' = [op |-> "authenticate", email |-> email, password |-> password,
                              at |-> clock,
                              result |-> r.result, before |-> user_files]
    /\ user_calls' = user_calls + 1
    /\ UNCHANGED <<clock, next_user_id, credentials, userOthers>>

AwardPoints(user_id, action, extra_points) ==
    /\ user_calls < MaxUserCalls
    /\ LET r == award_points(user_files, user_id, action, extra_points)
       IN  /\ user_files' = r.files
           /\ lastUser' = [op |-> "award_points", user_id |-> user_id, action |-> action,
                           extra_points |-> extra_points, at |-> clock,
                           result |-> r.result, before |-> user_files]
    /\ user_calls' = user_calls + 1
    /\ UNCHANGED <<clock, next_user_id, credentials, userOthers>>

InitUsers ==
    /\ user_files = EmptyDict
    /\ next_user_id = 0
    /\ credentials = {}
    /\ user_calls = 0
    /\ lastUser = IdleUser

NextUsers ==
    \/ Tick
    \/ \E username \in Usernames, email \in Emails, password \in CreatePasswords :
          CreateUser(username, email, password)
    \/ \E user_id \in UserIds, updates \in Updates : UpdateUser(user_id, updates)
    \/ \E email \in Emails, password \in Passwords : Authenticate(email, password)
    \/ \E user_id \in UserIds, award \in AwardArguments :
          AwardPoints(user_id, award[1], award[2])

(***************************************************************************)
(* components/notifications.NotificationManager                            *)
(***************************************************************************)
\* NotificationManager(max_notifications)
max_notifications == 2

\* f"notification_{int(time.time())}_{random.randint(1000, 9999)}"
NotificationId(t, rnd) == <<"notification", t, rnd>>

\* list[-n:]; -0 is 0, so n = 0 gives the whole list
LastN(list, n) ==
    IF n = 0 \/ n >= Len(list) THEN list ELSE SubSeq(list, Len(list) - n + 1, Len(list))

\* self is st.session_state: notifications and notification_count
add(self, message, type, duration, title, t, rnd) ==
    LET notification == [id        |-> NotificationId(t, rnd),
                         message   |-> message,
                         type      |-> type,
                         duration  |-> duration,
                         title     |-> title,
                         timestamp |-> t,
                         read      |-> FALSE]
        appended == Append(self.notifications, notification)
    IN  [notifications      |-> IF Len(appended) > max_notifications
                                THEN LastN(appended, max_notifications)
                                ELSE appended,
         notification_count |-> self.notification_count + 1]

add_success(self, message, duration, title, t, rnd) ==
    add(self, message, "success", duration, title, t, rnd)

clear(self) == [notifications |-> <<>>, notification_count |-> 0]

\* the first notification with the id is marked
mark_read(self, notification_id) ==
    LET hits == {i \in DOMAIN self.notifications : self.notifications[i].id = notification_id}
    IN  [self EXCEPT !.notifications =
            [i \in DOMAIN @ |-> IF i \in hits /\ \A j \in hits : i <= j
                                THEN [@[i] EXCEPT !.read = TRUE]
                                ELSE @[i]]]

mark_all_read(self) ==
    [self EXCEPT !.notifications = [i \in DOMAIN @ |-> [@[i] EXCEPT !.read = TRUE]]]

remove(self, notification_id) ==
    [self EXCEPT !.notifications = SelectSeq(@, LAMBDA n : n.id # notification_id)]

get_unread_count(self) ==
    Cardinality({i \in DOMAIN self.notifications : ~self.notifications[i].read})

\* auto_dismiss keeping a notification through the second its duration ends
auto_dismiss_one_second_late(self, t) ==
    [self EXCEPT !.notifications =
        SelectSeq(@, LAMBDA n : n.duration = 0 \/ t - n.timestamp <= n.duration)]

auto_dismiss(self, t) ==
    [self EXCEPT !.notifications =
        SelectSeq(@, LAMBDA n : n.duration = 0 \/ t - n.timestamp < n.duration)]

---------------------------------------------------------------------------
\* The inputs the notification actions draw from.
Durations == {0, 1, 2}

RandomInts == {1000, 1001}

NotificationState == [notifications |-> notifications, notification_count |-> notification_count]

IdleNotify == [op |-> "idle"]

NotifyRecord(op) == [op |-> op, before |-> notifications, at |-> clock]

\* notifications.add_success(message, duration, title = "Achievement Unlocked")
NotifyAddSuccess(duration, rnd) ==
    /\ notification_count < MaxNotificationCount
    /\ LET r == add_success(NotificationState, "You've unlocked an achievement!", duration,
                            "Achievement Unlocked", clock, rnd)
       IN  /\ notifications' = r.notifications
           /\ notification_count' = r.notification_count
    /\ lastNotify' = NotifyRecord("add")
    /\ UNCHANGED <<clock, notifyOthers>>

\* 'Mark as Read' or 'View Details' on the card of a stored notification
MarkRead(i) ==
    /\ i \in DOMAIN notifications
    /\ notifications' = mark_read(NotificationState, notifications[i].id).notifications
    /\ lastNotify' = NotifyRecord("mark_read")
    /\ UNCHANGED <<notification_count, clock, notifyOthers>>

MarkAllRead ==
    /\ notifications' = mark_all_read(NotificationState).notifications
    /\ lastNotify' = NotifyRecord("mark_all_read")
    /\ UNCHANGED <<notification_count, clock, notifyOthers>>

\* 'Dismiss' on the card of a stored notification
RemoveNotification(i) ==
    /\ i \in DOMAIN notifications
    /\ notifications' = remove(NotificationState, notifications[i].id).notifications
    /\ lastNotify' = NotifyRecord("remove")
    /\ UNCHANGED <<notification_count, clock, notifyOthers>>

\* 'Clear All', shown when there are notifications
ClearNotifications ==
    /\ notifications # <<>>
    /\ LET r == clear(NotificationState)
       IN  /\ notifications' = r.notifications
           /\ notification_count' = r.notification_count
    /\ lastNotify' = NotifyRecord("clear")
    /\ UNCHANGED <<clock, notifyOthers>>

\* render_notification_center: auto_dismiss, then the unread count for the bell
RenderNotificationCenter ==
    /\ notifications' = auto_dismiss(NotificationState, clock).notifications
    /\ lastNotify' = NotifyRecord("auto_dismiss")
    /\ UNCHANGED <<notification_count, clock, notifyOthers>>

InitNotify ==
    /\ notifications = <<>>
    /\ notification_count = 0
    /\ lastNotify = IdleNotify

NextNotify ==
    \/ Tick
    \/ \E duration \in Durations, rnd \in RandomInts : NotifyAddSuccess(duration, rnd)
    \/ \E i \in 1..max_notifications : MarkRead(i)
    \/ MarkAllRead
    \/ \E i \in 1..max_notifications : RemoveNotification(i)
    \/ ClearNotifications
    \/ RenderNotificationCenter

(***************************************************************************)
(* The library: pages/discover.py, pages/create.py, pages/library.py       *)
(***************************************************************************)
\* The snippet dict of a successful generate_learning_snippet call; uuid is
\* the uuid4 drawn for its id.
GeneratedSnippet(uuid, topic, language) ==
    [id |-> <<"snippet", uuid>>, title |-> <<"Volcanoes">>, content |-> <<"Magma rises.">>,
     topic |-> topic, language |-> language]

\* get_audio_duration(filepath): the duration of the file, 300 without a file
get_audio_duration(dir, filepath) ==
    IF filepath \in DOMAIN dir /\ dir[filepath].exists THEN 10 ELSE 300

\* snippet['audio_path'] = audio_path; snippet['audio_duration'] = duration
WithAudio(snippet, audio_path, duration) ==
    Put(Put(snippet, "audio_path", audio_path), "audio_duration", duration)

\* The dict given to the page is the object held by the form, the playlist
\* and the session: an assignment to it shows in each list that holds it.
\* Objects are told apart by their id.
UpdateObject(list, object) ==
    [i \in DOMAIN list |-> IF list[i].id = object.id THEN object ELSE list[i]]

\* The state a page handler works on.
PageState(playlist, session, form, dir, cache, uuid) ==
    [current_playlist |-> playlist, session |-> session, create_form_state |-> form,
     dir |-> dir, cache |-> cache, uuid |-> uuid]

\* the page state after snippet['audio_path'] and ['audio_duration'] are set
AssignAudio(page, snippet) ==
    [page EXCEPT
        !.current_playlist = UpdateObject(@, snippet),
        !.session.snippets = UpdateObject(@, snippet),
        !.create_form_state.generated_content =
            IF @ # None /\ @.id = snippet.id THEN snippet ELSE @]

\* generate_audio called by a page, on the page state
PageAudio(page, snippet, language, voice_index, outs) ==
    generate_audio(page.dir, page.cache, page.uuid, FALSE, snippet.content, snippet.title,
                   language, voice_index, FALSE, DEFAULT_AUDIO_FORMAT, outs)

AfterAudio(page, audio) ==
    [page EXCEPT !.dir = audio.dir, !.cache = audio.cache, !.uuid = audio.uuid]

\* add_topics_to_playlist([topic]); snippet is what generate_learning_snippet
\* returned.  added is the snippet put into the library, or None.
add_topics_to_playlist(page, snippet, language, outs, t) ==
    LET audio     == PageAudio(page, snippet, language, 0, outs)
        generated == AfterAudio(page, audio)
    IN  IF audio.result # None
        THEN LET with_audio == WithAudio(snippet, audio.result,
                                         get_audio_duration(audio.dir, audio.result))
             IN  [page  |-> [generated EXCEPT
                               !.current_playlist = Append(@, with_audio),
                               !.session = add_snippet(@, with_audio, t).self],
                  added |-> with_audio]
        ELSE [page |-> generated, added |-> None]

\* the 'Save to library' button of the create page (create.py:237-290)
save_to_library(page, outs, t) ==
    LET form    == page.create_form_state
        snippet == form.generated_content
    IN  IF snippet \notin Elements(page.current_playlist)
        THEN LET needed    == form.generated_audio_path = None
                 audio     == PageAudio(page, snippet, form.language, form.voice_index, outs)
                 succeeded == needed /\ audio.result # None
                 saved     == IF succeeded
                              THEN WithAudio(snippet, audio.result,
                                             get_audio_duration(audio.dir, audio.result))
                              ELSE snippet
                 generated == IF ~needed THEN page
                              ELSE IF ~succeeded THEN AfterAudio(page, audio)
                              ELSE [AssignAudio(AfterAudio(page, audio), saved) EXCEPT
                                       !.create_form_state.generated_audio_path =
                                           audio.result]
             IN  [page  |-> [generated EXCEPT
                               !.current_playlist = Append(@, saved),
                               !.session = add_snippet(@, saved, t).self],
                  added |-> saved]
        ELSE [page |-> page, added |-> None]

\* the audio preview of the create page (create.py:315-366)
preview_audio(page, outs) ==
    LET form    == page.create_form_state
        snippet == form.generated_content
        audio   == PageAudio(page, snippet, form.language, form.voice_index, outs)
    IN  IF form.audio_generating /\ form.generated_audio_path = None
        THEN IF audio.result # None
             THEN LET with_audio == WithAudio(snippet, audio.result,
                                              get_audio_duration(audio.dir, audio.result))
                  IN  [AssignAudio(AfterAudio(page, audio), with_audio) EXCEPT
                          !.create_form_state.generated_audio_path = audio.result,
                          !.create_form_state.audio_generating = FALSE]
             ELSE [AfterAudio(page, audio) EXCEPT
                      !.create_form_state.audio_generating = FALSE]
        ELSE page

\* the 'Delete' button of the library page (library.py:307-314)
delete_snippet(page, snippet_id) ==
    LET removed == remove_snippet(page.session, snippet_id)
    IN  IF removed.result
        THEN [page EXCEPT
                !.session = removed.self,
                !.current_playlist = SelectSeq(@, LAMBDA item : item.id # snippet_id)]
        ELSE page

---------------------------------------------------------------------------
\* The inputs the page actions draw from: the free providers, Edge TTS
\* succeeding or both failing.
PageOutcomes ==
    {[elevenlabs |-> "error", edge |-> "ok", gtts |-> "error"],
     [elevenlabs |-> "error", edge |-> "error", gtts |-> "error"]}

LibraryTopics == {"volcanoes"}

IdleLibrary == [op |-> "idle", added |-> None]

CurrentPage ==
    PageState(current_playlist, user_session, create_form_state, audio_dir, audio_cache,
              next_uuid)

\* the page state becomes the state of the program
PageDone(page) ==
    /\ current_playlist' = page.current_playlist
    /\ user_session' = page.session
    /\ create_form_state' = page.create_form_state
    /\ audio_dir' = page.dir
    /\ audio_cache' = page.cache
    /\ next_uuid' = page.uuid

\* 'Add' on a topic of the discover page
DiscoverAddTopic(topic, outs) ==
    /\ session_calls < MaxSessionCalls
    /\ session_calls' = session_calls + 1
    /\ next_snippet_id < MaxSnippets
    /\ next_uuid < MaxUuid
    /\ LET snippet == GeneratedSnippet(next_snippet_id, topic, "en")
           r       == add_topics_to_playlist(CurrentPage, snippet, "en", outs, clock)
       IN  /\ PageDone(r.page)
           /\ lastLibrary' = [op |-> "add_topics_to_playlist", added |-> r.added]
    /\ next_snippet_id' = next_snippet_id + 1
    /\ UNCHANGED <<clock, libraryOthers>>

\* the create page has generated a snippet and shows it (create.py:142-159)
CreateContentGenerated(topic) ==
    /\ next_snippet_id < MaxSnippets
    /\ create_form_state.generated_content = None
    /\ create_form_state' = [create_form_state EXCEPT
          !.topic = topic,
          !.generated_content = GeneratedSnippet(next_snippet_id, topic,
                                                 create_form_state.language)]
    /\ next_snippet_id' = next_snippet_id + 1
    /\ lastLibrary' = [op |-> "generate", added |-> None]
    /\ UNCHANGED <<clock, current_playlist, user_session, session_calls, audio_dir,
                   audio_cache, next_uuid, libraryOthers>>

\* 'Preview audio': the click, and the rerun that generates the audio
CreateClickPreview ==
    /\ create_form_state.generated_content # None
    /\ ~create_form_state.audio_generating
    /\ create_form_state' = [create_form_state EXCEPT !.audio_generating = TRUE]
    /\ lastLibrary' = [op |-> "click_preview", added |-> None]
    /\ UNCHANGED <<clock, current_playlist, user_session, session_calls, audio_dir,
                   audio_cache, next_uuid, next_snippet_id, libraryOthers>>

CreateRunPreview(outs) ==
    /\ create_form_state.generated_content # None
    /\ create_form_state.audio_generating
    /\ create_form_state.generated_audio_path = None
    /\ next_uuid < MaxUuid
    /\ PageDone(preview_audio(CurrentPage, outs))
    /\ lastLibrary' = [op |-> "preview_audio", added |-> None]
    /\ UNCHANGED <<clock, session_calls, next_snippet_id, libraryOthers>>

\* 'Save to library'
CreateSaveToLibrary(outs) ==
    /\ session_calls < MaxSessionCalls
    /\ session_calls' = session_calls + 1
    /\ create_form_state.generated_content # None
    /\ next_uuid < MaxUuid
    /\ LET r == save_to_library(CurrentPage, outs, clock)
       IN  /\ PageDone(r.page)
           /\ lastLibrary' = [op |-> "save_to_library", added |-> r.added]
    /\ UNCHANGED <<clock, next_snippet_id, libraryOthers>>

\* 'Regenerate': the form is reset, its topic and options kept
CreateReset ==
    /\ create_form_state.generated_content # None
    /\ create_form_state' = [create_form_state EXCEPT
          !.generated_content = None, !.generated_audio_path = None,
          !.generating = FALSE, !.audio_generating = FALSE, !.error = "None"]
    /\ lastLibrary' = [op |-> "reset", added |-> None]
    /\ UNCHANGED <<clock, current_playlist, user_session, session_calls, audio_dir,
                   audio_cache, next_uuid, next_snippet_id, libraryOthers>>

\* 'Delete' on a snippet shown by the library page
LibraryDelete(i) ==
    /\ session_calls < MaxSessionCalls
    /\ session_calls' = session_calls + 1
    /\ i \in DOMAIN current_playlist
    /\ PageDone(delete_snippet(CurrentPage, current_playlist[i].id))
    /\ lastLibrary' = [op |-> "delete", added |-> None]
    /\ UNCHANGED <<clock, next_snippet_id, libraryOthers>>

InitLibrary ==
    /\ current_playlist = <<>>
    /\ next_snippet_id = 0
    /\ lastLibrary = IdleLibrary

NextLibrary ==
    \/ Tick
    \/ \E topic \in LibraryTopics, outs \in PageOutcomes : DiscoverAddTopic(topic, outs)
    \/ \E topic \in LibraryTopics : CreateContentGenerated(topic)
    \/ CreateClickPreview
    \/ \E outs \in PageOutcomes : CreateRunPreview(outs)
    \/ \E outs \in PageOutcomes : CreateSaveToLibrary(outs)
    \/ CreateReset
    \/ \E i \in 1..MaxSnippets : LibraryDelete(i)

(***************************************************************************)
(* Specifications                                                          *)
(***************************************************************************)
vars == <<llmVars, audioVars, sessionVars, userVars, extraVars>>

\* The subsystems not taking part in a specification stay as constructed.
AudioUnused == elevenlabs_available = FALSE /\ AudioStart

ExtraUnused == InitStreak /\ InitQuiz /\ InitCache /\ InitNotify /\ InitLibrary

InitSpecLLM == InitLLM /\ AudioUnused /\ InitSession /\ InitUsers /\ ExtraUnused

SpecLLM == InitSpecLLM /\ [][NextLLM]_vars

InitSpecAudio == InitAudio /\ InitLLM /\ InitSession /\ InitUsers /\ ExtraUnused

SpecAudio == InitSpecAudio /\ [][NextAudio]_vars

InitSpecSession == InitSession /\ InitLLM /\ AudioUnused /\ InitUsers /\ ExtraUnused

SpecSession == InitSpecSession /\ [][NextSession]_vars

InitSpecUsers == InitUsers /\ InitLLM /\ AudioUnused /\ InitSession /\ ExtraUnused

SpecUsers == InitSpecUsers /\ [][NextUsers]_vars

RestUnused == InitSession /\ InitLLM /\ AudioUnused /\ InitUsers

InitSpecStreak == InitStreak /\ RestUnused /\ InitQuiz /\ InitCache /\ InitNotify /\ InitLibrary

SpecStreak == InitSpecStreak /\ [][NextStreak]_vars

InitSpecQuiz == InitQuiz /\ RestUnused /\ InitStreak /\ InitCache /\ InitNotify /\ InitLibrary

SpecQuiz == InitSpecQuiz /\ [][NextQuiz]_vars

InitSpecCache == InitCache /\ RestUnused /\ InitStreak /\ InitQuiz /\ InitNotify /\ InitLibrary

SpecCache == InitSpecCache /\ [][NextCache]_vars

InitSpecNotify ==
    InitNotify /\ RestUnused /\ InitStreak /\ InitQuiz /\ InitCache /\ InitLibrary

SpecNotify == InitSpecNotify /\ [][NextNotify]_vars

InitSpecLibrary ==
    InitLibrary /\ RestUnused /\ InitStreak /\ InitQuiz /\ InitCache /\ InitNotify

SpecLibrary == InitSpecLibrary /\ [][NextLibrary]_vars

(***************************************************************************)
(* Claims about content generation                                         *)
(***************************************************************************)
\* The model a generate_content call was made for (part of its cache key).
RequestedModel(call) == call.key[3]

\* The cache held a non-empty value under the call's key: in memory or on disk.
HeldInMemory(call) == Truthy(call.held.in_memory)

HeldOnDisk(call) == Truthy(call.held.on_disk)

AllFailed(outs) == \A i \in 1..Len(outs) : outs[i] = Fail

\* The content of the first LLM call that succeeded.
FirstSuccess(outs) ==
    outs[CHOOSE i \in 1..Len(outs) : outs[i] # Fail /\ \A j \in 1..(i - 1) : outs[j] = Fail]

\* C1: on a cache miss generate_content calls the requested model once; it
\* calls the fallback model once more exactly when that call failed and the
\* requested model is not the fallback model; it returns the content of the
\* first call that succeeded, and the fixed error string when every call it
\* made failed (it never raises).
C1_FallbackChain ==
    (lastCall.op = "generate_content" /\ ~HeldInMemory(lastCall) /\ ~HeldOnDisk(lastCall))
    => /\ Len(lastCall.calls) \in {1, 2}
       /\ Len(lastCall.outs) = Len(lastCall.calls)
       /\ lastCall.calls[1] = RequestedModel(lastCall)
       /\ Len(lastCall.calls) = 2
            <=> (lastCall.outs[1] = Fail /\ RequestedModel(lastCall) # LLM_MODELS.fallback)
       /\ Len(lastCall.calls) = 2 => lastCall.calls[2] = LLM_MODELS.fallback
       /\ lastCall.result = IF AllFailed(lastCall.outs) THEN ErrorContent
                            ELSE FirstSuccess(lastCall.outs)

\* C1 witness: the default model and the fallback model were both called,
\* both failed, and the error string was returned.
C1_Witness ==
    /\ lastCall.op = "generate_content"
    /\ lastCall.calls = <<LLM_MODELS.default, LLM_MODELS.fallback>>
    /\ lastCall.outs = <<Fail, Fail>>
    /\ lastCall.result = ErrorContent

\* C2: when the memory cache or the cache file held a non-empty value under
\* the key of a generate_content call, the call returns that value and makes
\* no LLM call; memory is read first, the file is read only when memory gave
\* nothing, and a value found in the file is copied into the memory cache.
C2_CacheHit ==
    (lastCall.op = "generate_content" /\ (HeldInMemory(lastCall) \/ HeldOnDisk(lastCall)))
    => /\ lastCall.calls = <<>>
       /\ lastCall.result = IF HeldInMemory(lastCall) THEN lastCall.held.in_memory
                            ELSE lastCall.held.on_disk
       /\ lastCall.lookups[1] = "memory"
       /\ IF HeldInMemory(lastCall) /\ lastCall.held.live
          THEN lastCall.lookups = <<"memory">>
          ELSE /\ lastCall.lookups = <<"memory", "disk">>
               /\ lastCall.key \in DOMAIN memory_cache
               /\ memory_cache[lastCall.key].v = lastCall.held.on_disk

\* C2 witness: a call found nothing usable in memory (the entry had expired)
\* and was answered from the cache file.
C2_Witness ==
    /\ lastCall.op = "generate_content"
    /\ ~lastCall.held.live
    /\ HeldOnDisk(lastCall)
    /\ lastCall.lookups = <<"memory", "disk">>
    /\ lastCall.calls = <<>>
    /\ lastCall.result = lastCall.held.on_disk

\* C3 (as claimed): after generate_content returned non-empty content that
\* an LLM call produced (the primary or the fallback model), the call that
\* immediately follows with the same prompt, model, temperature and
\* max_tokens returns the same content and calls no LLM.
C3_RepeatIsCached ==
    [][(/\ lastCall.op = "generate_content"
        /\ lastCall.calls # <<>>
        /\ ~AllFailed(lastCall.outs)
        /\ Truthy(lastCall.result)
        /\ lastCall'.op = "generate_content"
        /\ lastCall'.key = lastCall.key)
       => (lastCall'.calls = <<>> /\ lastCall'.result = lastCall.result)]_vars

\* C5 (as claimed): when every LLM call made for a snippet failed, the
\* snippet returned has the key 'error', nothing is stored under the snippet
\* cache key, and the create page stores no generated_content and shows an
\* error.
C5_FailedSnippetIsError ==
    (/\ lastCall.op \in {"generate_learning_snippet", "create_page"}
     /\ lastCall.calls # <<>>
     /\ AllFailed(lastCall.outs))
    => /\ lastCall.result.error
       /\ lastCall.key \notin DOMAIN memory_cache
       /\ lastCall.key \notin DOMAIN cache_files
       /\ lastCall.op = "create_page"
            => /\ create_form_state.generated_content = None
               /\ create_form_state.error # "None"

(***************************************************************************)
(* Claims about audio generation                                           *)
(***************************************************************************)
\* The provider chain of a call and the outcome each provider had.
ChainOf(call) ==
    (IF call.premium /\ elevenlabs_available THEN <<"elevenlabs">> ELSE <<>>)
        \o <<"edge-tts", "gtts">>

OutcomeOf(call, provider) ==
    IF provider = "elevenlabs" THEN call.outs.elevenlabs
    ELSE IF provider = "edge-tts" THEN call.outs.edge
    ELSE call.outs.gtts

\* The call had a title and a text and found no cached file: it ran the engine.
RanEngine(call) ==
    /\ call.op = "generate_audio"
    /\ call.title # <<>>
    /\ call.text # <<>>
    /\ ~call.cached_before

EveryProviderFailed(call) ==
    \A i \in 1..Len(ChainOf(call)) : OutcomeOf(call, ChainOf(call)[i]) # "ok"

\* C4: the engine invokes the providers in the order ElevenLabs (only when
\* premium was requested and ElevenLabs is available), Edge TTS, gTTS; it
\* stops at the first provider that succeeds and reports success then, and
\* it reports failure only after every provider of the chain failed.
C4_ProviderOrder ==
    RanEngine(lastAudio)
    => LET chain == ChainOf(lastAudio)
           tried == lastAudio.tried
           n     == Len(tried)
       IN  /\ n \in 1..Len(chain)
           /\ tried = SubSeq(chain, 1, n)
           /\ \A i \in 1..(n - 1) : OutcomeOf(lastAudio, tried[i]) # "ok"
           /\ (lastAudio.result # None) <=> (OutcomeOf(lastAudio, tried[n]) = "ok")
           /\ (lastAudio.result = None) => (tried = chain /\ EveryProviderFailed(lastAudio))

\* C4 witness: premium was requested with ElevenLabs available, ElevenLabs
\* failed, Edge TTS succeeded and gTTS was not invoked.
C4_Witness ==
    /\ RanEngine(lastAudio)
    /\ lastAudio.premium
    /\ elevenlabs_available
    /\ lastAudio.tried = <<"elevenlabs", "edge-tts">>
    /\ lastAudio.result # None

\* C6: generate_audio returns None and leaves the audio cache as it was when
\* the title or the text is empty or when every provider failed; when a
\* provider succeeded it returns the path of a new file in the audio
\* directory, and the cache holds a copy of that file under the content hash.
C6_AudioResult ==
    lastAudio.op = "generate_audio"
    => /\ (\/ lastAudio.title = <<>>
           \/ lastAudio.text = <<>>
           \/ (RanEngine(lastAudio) /\ EveryProviderFailed(lastAudio)))
          => (lastAudio.result = None /\ audio_cache = lastAudio.cache_before)
       /\ (RanEngine(lastAudio) /\ ~EveryProviderFailed(lastAudio))
          => /\ lastAudio.result # None
             /\ lastAudio.result \notin lastAudio.files_before
             /\ lastAudio.result \in DOMAIN audio_dir
             /\ audio_dir[lastAudio.result].size > 0
             /\ lastAudio.key \in DOMAIN audio_cache
             /\ audio_cache[lastAudio.key] = audio_dir[lastAudio.result]

\* C6 witness: the last provider of the chain succeeded and its file was cached.
C6_Witness ==
    /\ RanEngine(lastAudio)
    /\ lastAudio.tried = <<"edge-tts", "gtts">>
    /\ lastAudio.result \in DOMAIN audio_dir
    /\ lastAudio.key \in DOMAIN audio_cache
    /\ audio_cache[lastAudio.key] = audio_dir[lastAudio.result]

\* C7: when a non-empty cached file exists for the cleaned title and text,
\* language, voice_index, premium flag and format of a call, generate_audio
\* returns a new file that is a copy of the cached one and invokes no
\* provider, no enhancement and no compression.
C7_CachedAudio ==
    (/\ lastAudio.op = "generate_audio"
     /\ lastAudio.title # <<>>
     /\ lastAudio.text # <<>>
     /\ lastAudio.cached_before)
    => /\ lastAudio.result # None
       /\ lastAudio.result \notin lastAudio.files_before
       /\ lastAudio.result \in DOMAIN audio_dir
       /\ audio_dir[lastAudio.result] = lastAudio.cache_before[lastAudio.key]
       /\ audio_dir[lastAudio.result].size > 0
       /\ lastAudio.tried = <<>>
       /\ lastAudio.steps = <<>>

\* C7 witness: a call whose raw text and format differ from those of the
\* call that filled the cache ('- Magma rises.' as flac, which cleans to
\* 'Magma rises.' as mp3) was answered from the cache.
C7_Witness ==
    /\ lastAudio.op = "generate_audio"
    /\ lastAudio.cached_before
    /\ lastAudio.text = <<Bullet, "Magma rises.">>
    /\ lastAudio.format = "flac"
    /\ lastAudio.tried = <<>>
    /\ lastAudio.result \in DOMAIN audio_dir
    /\ audio_dir[lastAudio.result].text = FullText(<<"Volcanoes">>, <<"Magma rises.">>)

(***************************************************************************)
(* Claims about the user session                                           *)
(***************************************************************************)
IdsOf(snippets) == {snippets[i].id : i \in DOMAIN snippets}

\* The add_snippet call that has just returned was given an id the playlist held.
DuplicateAdd ==
    /\ lastSession.op = "add_snippet"
    /\ lastSession.snippet.id \in IdsOf(lastSession.before.snippets)

\* C8: add_snippet with a snippet whose id is already in the playlist returns
\* False and leaves snippets, history, analytics, points and achievements as
\* they were; and whatever add_snippet and remove_snippet calls a fresh
\* session has seen, no two snippets of its playlist have the same id.
C8_DuplicateRejected ==
    /\ DuplicateAdd =>
          /\ lastSession.result = FALSE
          /\ user_session.snippets = lastSession.before.snippets
          /\ user_session.history = lastSession.before.history
          /\ user_session.analytics = lastSession.before.analytics
          /\ user_session.points = lastSession.before.points
          /\ user_session.achievements = lastSession.before.achievements
    /\ \A i, j \in DOMAIN user_session.snippets :
          user_session.snippets[i].id = user_session.snippets[j].id => i = j

\* A snippet with a new title was refused for the id of a snippet in a
\* playlist of two, after points and an achievement had been earned.
C8_Witness ==
    /\ DuplicateAdd
    /\ lastSession.result = FALSE
    /\ lastSession.snippet \notin Elements(user_session.snippets)
    /\ Len(user_session.snippets) = 2
    /\ user_session.points > 0
    /\ user_session.achievements # <<>>

(***************************************************************************)
(* Claims about the user profiles                                          *)
(***************************************************************************)
\* C9: after any sequence of create_user and update_user calls no two stored
\* profiles have the same username or the same email; a create_user call
\* whose username or email a stored profile has returns None and stores
\* nothing.
C9_UniqueProfiles ==
    /\ \A a, b \in DOMAIN user_files :
          a # b => /\ user_files[a].username # user_files[b].username
                   /\ user_files[a].email # user_files[b].email
    /\ ( /\ lastUser.op = "create_user"
         /\ \/ _username_exists(lastUser.before, lastUser.username)
            \/ _email_exists(lastUser.before, lastUser.email) )
          => /\ lastUser.result = None
             /\ user_files = lastUser.before

\* What an authenticate call does once it is known whether it is to succeed.
AuthenticateOutcome(accepted) ==
    /\ (lastUser.result # None) <=> accepted
    /\ lastUser.result # None =>
          /\ lastUser.result.id \in DOMAIN lastUser.before
          /\ lastUser.result.email = lastUser.email
          /\ lastUser.result = [lastUser.before[lastUser.result.id]
                                  EXCEPT !.last_login = lastUser.at]
          /\ user_files = Put(lastUser.before, lastUser.result.id, lastUser.result)
    /\ lastUser.result = None => user_files = lastUser.before

\* C10 as stated: authenticate returns the profile, with last_login updated,
\* only when a profile with the email exists and the password is the one
\* create_user was given for it; otherwise it returns None and changes
\* nothing.
C10_AuthenticateChecksPassword ==
    lastUser.op = "authenticate" =>
        AuthenticateOutcome(/\ _email_exists(lastUser.before, lastUser.email)
                            /\ <<lastUser.email, lastUser.password>> \in credentials)

\* C10 amended: authenticate returns a stored profile with the email, its
\* last_login set to the time of the call and saved, exactly when a profile
\* with the email exists, whatever the password; otherwise it returns None
\* and changes nothing.
C10_AuthenticateByEmail ==
    lastUser.op = "authenticate" =>
        AuthenticateOutcome(_email_exists(lastUser.before, lastUser.email))

\* A login with a password no create_user call was given for the email, some
\* time after the profile was created.
C10_Witness ==
    /\ lastUser.op = "authenticate"
    /\ lastUser.result # None
    /\ <<lastUser.email, lastUser.password>> \notin credentials
    /\ lastUser.result.last_login > lastUser.result.created_at
    /\ user_files[lastUser.result.id].last_login = lastUser.at

\* C11: award_points returns the points total stored for the user after the
\* call, the points of any achievement awarded during the call included; it
\* returns 0 for an unknown user; and when the points of the action plus
\* extra_points are not positive the stored total is unchanged.
C11_AwardPointsReturnsStoredTotal ==
    lastUser.op = "award_points" =>
        IF lastUser.user_id \notin DOMAIN lastUser.before
        THEN lastUser.result = 0 /\ user_files = lastUser.before
        ELSE /\ lastUser.result = user_files[lastUser.user_id].stats.points
             /\ Get(POINTS, lastUser.action, 0) + lastUser.extra_points <= 0
                  => user_files[lastUser.user_id].stats.points
                       = lastUser.before[lastUser.user_id].stats.points

(***************************************************************************)
(* Claims about the daily streak                                           *)
(***************************************************************************)
\* update_session_analytics ran on each of the seven days that end with day.
SevenDaysTo(day) == \A d \in (day - 6)..day : d \in used_days

HoldsDailyLearner == "daily_learner" \in Elements(user_session.achievements)

\* C12: a user for whom update_session_analytics ran on 7 consecutive calendar
\* days holds 'daily_learner' by the end of the 7th of them, and a user with no
\* such run of 7 days does not hold it; a call one day after the previous
\* login adds one to the streak, a call after more than one skipped day sets
\* it to 1, and a call on the day of the previous login leaves it unchanged.
C12_DailyLearner ==
    /\ SevenDaysTo(today) => HoldsDailyLearner
    /\ HoldsDailyLearner => \E day \in 0..today : SevenDaysTo(day)
    /\ lastStreak.op = "update_session_analytics" =>
          LET was   == lastStreak.before
              delta == lastStreak.on - was.last_login_date
              now   == user_session.analytics.daily_streak
          IN  /\ delta = 1 => now = was.daily_streak + 1
              /\ delta > 2 => now = 1
              /\ delta = 0 => now = was.daily_streak

(***************************************************************************)
(* Claims about the quiz page                                              *)
(***************************************************************************)
\* the questions answered or skipped so far
Answered(state) == Cardinality(DOMAIN state.answers)

QuizCounts ==
    quiz_state.active_quiz # None =>
        /\ 0 <= quiz_state.score
        /\ quiz_state.score <= Answered(quiz_state)
        /\ Answered(quiz_state) <= quiz_state.total_questions
        /\ ~quiz_state.quiz_complete =>
              quiz_state.current_question < quiz_state.total_questions

\* A step in which the question shown is answered or skipped.
AnswerOrSkipStep ==
    /\ ActiveQuizShown
    /\ quiz_state'.answers # quiz_state.answers

QuizStep ==
    LET q == quiz_state.current_question
    IN  /\ AnswerOrSkipStep =>
              /\ q \notin DOMAIN quiz_state.answers
              /\ DOMAIN quiz_state'.answers = DOMAIN quiz_state.answers \cup {q}
              /\ quiz_state'.answers[q] = "skipped" => quiz_state'.score = quiz_state.score
              /\ quiz_state'.answers[q] = CurrentQuestion(quiz_state).answer =>
                    quiz_state'.score = quiz_state.score + 1
              /\ IF q + 1 = quiz_state.total_questions
                 THEN quiz_state'.quiz_complete
                 ELSE /\ ~quiz_state'.quiz_complete
                      /\ quiz_state'.current_question = q + 1
        /\ (~quiz_state.quiz_complete /\ quiz_state'.quiz_complete) =>
              /\ AnswerOrSkipStep
              /\ q + 1 = quiz_state.total_questions

\* C17: while a quiz is active, 0 <= score <= questions answered or skipped <=
\* total_questions and, until the quiz is complete, current_question <
\* total_questions; an answer or a skip adds exactly the question shown to
\* those answered and moves to the next question, or completes the quiz when
\* it was the last; a skip leaves the score, a correct answer adds exactly 1;
\* quiz_complete becomes True in no other step.
C17_QuizProgress == []QuizCounts /\ [][QuizStep]_vars

\* A quiz of two questions is complete with the first answered correctly and
\* the second skipped, and its score of 1 out of 2 is in the session.
C17_Witness ==
    /\ quiz_state.active_quiz # None
    /\ quiz_state.quiz_complete
    /\ quiz_state.total_questions = 2
    /\ quiz_state.current_question = 1
    /\ quiz_state.answers = (0 :> "B" @@ 1 :> "skipped")
    /\ quiz_state.score = 1
    /\ user_session.analytics.quiz_scores # <<>>

(***************************************************************************)
(* Claims about the quiz master achievement                                *)
(***************************************************************************)
\* The ids of the achievements in a stored profile.
ProfileAchievements(user) == {user.stats.achievements[i].id : i \in DOMAIN user.stats.achievements}

\* C13: 'quiz_master' is held only by a user who has completed at least 10
\* quizzes with score equal to max_score, whether record_quiz_score awarded
\* it to the session or UserManager._check_achievements to the profile.
C13_QuizMasterNeedsPerfectScores ==
    /\ "quiz_master" \in Elements(user_session.achievements)
          => PerfectScores(user_session) >= 10
    /\ \A id \in DOMAIN user_files :
          "quiz_master" \in ProfileAchievements(user_files[id])
             => PerfectScores(user_session) >= 10

(***************************************************************************)
(* Claims about the LRU cache                                              *)
(***************************************************************************)
\* C14: with max_size >= 1 and calls of get, set, delete and clear from
\* several threads interleaved in any way, the cache never stores more than
\* max_size entries, and cache and access_times have the same keys whenever
\* a thread can look at them, that is whenever the lock is free.
C14_BoundedAndAligned ==
    /\ Cardinality(DOMAIN lru_cache) <= max_size
    /\ lock = NoThread => DOMAIN lru_cache = TimesKeys(access_times)

\* The cache is full, one thread is between the two pops of a delete, and the
\* other thread waits for the lock with a set of a new key.
C14_Witness ==
    \E th \in Threads, other \in Threads :
        /\ lock = th
        /\ threads[th].pc = "delete_pop_times"
        /\ Cardinality(TimesKeys(access_times)) = max_size
        /\ threads[other].pc = "wait"
        /\ threads[other].op = "set"
        /\ threads[other].key \notin TimesKeys(access_times)

\* A step in which thread th runs the last statement of a set call.
SetReturns(th) ==
    /\ lock = th
    /\ threads[th].pc = "set_store_times"
    /\ threads'[th] # threads[th]

\* C15: a set of a key that is not stored, on a cache that holds max_size
\* entries, evicts exactly one entry, the one whose last successful get or
\* set is the oldest, and keeps every other entry; a set of a stored key
\* evicts nothing.
C15_EvictsLeastRecentlyUsed ==
    [][\A th \in Threads :
          SetReturns(th) =>
              LET before == threads[th].before
                  key    == threads[th].key
              IN  IF key \in before.keys
                  THEN DOMAIN lru_cache' = before.keys
                  ELSE IF Cardinality(before.keys) = max_size
                  THEN DOMAIN lru_cache' = (before.keys \ {Head(before.recency)}) \cup {key}
                  ELSE DOMAIN lru_cache' = before.keys \cup {key}]_vars

\* A step in which thread th runs the first statement of a get call on a
\* stored key.
GetLooksUp(th) ==
    /\ lock = th
    /\ threads[th].pc = "get"
    /\ threads[th].key \in DOMAIN lru_cache
    /\ threads'[th] # threads[th]

\* C16: a get of a stored key, made more than the entry's ttl after the entry
\* was last set, removes the entry and returns None; made earlier it returns
\* the stored value and makes the entry the most recently used without
\* changing the time from which its ttl counts.  Only a set gives an entry a
\* new creation time.
C16_ExpiryFromLastSet ==
    [][\A th \in Threads :
          /\ GetLooksUp(th) =>
                LET key   == threads[th].key
                    entry == TimesOf(access_times, key)
                IN  IF clock - entry.created > entry.ttl
                    THEN /\ key \notin DOMAIN lru_cache'
                         /\ threads'[th].pc = "get_pop_times"
                    ELSE /\ threads'[th].pc = "idle"
                         /\ lastCache'.result = lru_cache[key]
                         /\ lru_cache' = lru_cache
                         /\ TimesOf(access_times', key) = [entry EXCEPT !.accessed = clock]
                         /\ recency'[Len(recency')] = key
          /\ (lock = th /\ threads[th].pc = "get_pop_times" /\ threads'[th] # threads[th]) =>
                /\ threads[th].key \notin DOMAIN lru_cache' \cup TimesKeys(access_times')
                /\ lastCache'.result = None
          /\ \A key \in TimesKeys(access_times) \cap TimesKeys(access_times') :
                TimesOf(access_times', key).created # TimesOf(access_times, key).created
                   => \E setter \in Threads : SetReturns(setter) /\ threads[setter].key = key
      ]_vars

\* A get has just returned None for a key that was stored when it took the
\* lock: the entry had outlived its ttl and is gone.
C16_Witness ==
    /\ lastCache.op = "get"
    /\ lastCache.held
    /\ lastCache.result = None
    /\ lastCache.key \notin DOMAIN lru_cache \cup TimesKeys(access_times)
    /\ lock = NoThread
    /\ clock >= 2

(***************************************************************************)
(* Claims about notifications                                              *)
(***************************************************************************)
\* the notification is one auto_dismiss removes at time t
Expired(n, t) == n.duration > 0 /\ t - n.timestamp >= n.duration

\* C18: the stored list never holds more than max_notifications entries, and
\* an add leaves the newest max_notifications of the old list followed by the
\* new notification; the unread count never exceeds the number stored;
\* auto_dismiss leaves, in order, exactly the notifications that are not of
\* duration > 0 and at least that old, so none of duration 0 is removed.
C18_NotificationsBounded ==
    /\ Len(notifications) <= max_notifications
    /\ get_unread_count(NotificationState) <= Len(notifications)
    /\ lastNotify.op = "add" =>
          LET before == lastNotify.before
              kept   == Len(notifications) - 1
          IN  /\ kept = IF Len(before) < max_notifications
                        THEN Len(before) ELSE max_notifications - 1
              /\ \A i \in 1..kept : notifications[i] = before[Len(before) - kept + i]
              /\ notifications[kept + 1].timestamp = lastNotify.at
              /\ ~notifications[kept + 1].read
    /\ lastNotify.op = "auto_dismiss" =>
          /\ notifications = SelectSeq(lastNotify.before,
                                       LAMBDA n : ~Expired(n, lastNotify.at))
          /\ \A i \in DOMAIN lastNotify.before :
                lastNotify.before[i].duration = 0 =>
                   \E j \in DOMAIN notifications : notifications[j] = lastNotify.before[i]

\* An add into a full list has just dropped the oldest notification, while a
\* read notification of duration 0 from an earlier second is still stored.
C18_Witness ==
    /\ lastNotify.op = "add"
    /\ Len(lastNotify.before) = max_notifications
    /\ Len(notifications) = max_notifications
    /\ lastNotify.before[1].timestamp < notifications[1].timestamp
    /\ notifications[1].duration = 0
    /\ notifications[1].read
    /\ notifications[1].timestamp < clock

(***************************************************************************)
(* Claims about the library                                                *)
(***************************************************************************)
\* the snippet has an audio_path, and it names a file with audio in it
HasAudio(snippet) ==
    /\ "audio_path" \in DOMAIN snippet
    /\ snippet.audio_path \in DOMAIN audio_dir
    /\ audio_dir[snippet.audio_path].exists
    /\ audio_dir[snippet.audio_path].size > 0

\* C19: the snippet a page has just added to the library, and every snippet
\* in st.session_state.current_playlist and in session.snippets, has an
\* audio_path that names a generated audio file.
C19_LibrarySnippetsHaveAudio ==
    /\ lastLibrary.added # None => HasAudio(lastLibrary.added)
    /\ \A snippet \in Elements(current_playlist) \cup Elements(user_session.snippets) :
          HasAudio(snippet)

=============================================================================
